---- MODULE Spec2Model ----
\* A model of the build-lifecycle polling core of grace-circleci-builder:
\* the retry wrapper, the lifecycle tracker (WaitForProjectBuild with its
\* waitForBuild / waitForNextBuild / finalWorkflowStatus stages) and the
\* orchestration loop (runBuilds) that drives it.
\*
\* Time is counted in seconds.  The code only ever compares the clock with a
\* deadline that it computed from the clock (endTime = time.Now().Add(d)), so
\* the clock is re-based to 0 at the instant a deadline is computed.  Time
\* advances by the sleeps of the code (waitForBuild, waiter, retrier).
EXTENDS Integers, Sequences, FiniteSets, TLC

\* ---------------------------------------------------------------- bounds
\* longest summaries listing the remote returns
MaxSummaries == 2
\* longest chain of builds one WaitForProjectBuild call follows
MaxChain == 2
\* the larger of the two per-job timeouts tried (seconds)
MaxJobTimeout == 95
\* the wait timeout for the next build (seconds)
MaxWaitTimeout == 1
\* longest build file given to runBuilds
MaxEntries == 2
\* the largest attempt count retrier is called with
MaxAttempts == 3
\* the longest the trigger requests of BuildProject take to answer (seconds)
MaxTriggerLatency == 4
MaxWaiterDeadline == 2
MaxHistory == 3
MaxSkipHistory == 2
MaxSkipDays == 3
MaxPages == 3
MaxProjects == 3
MaxWaited == 3

\* ---------------------------------------------------- program constants
lifecycleFinished == "finished"
retrierIntervalSecs == 30
retrierAttempts == 3
sleepSec == 2
waiterIntervalSecs == 1
finalRetrierIntervalSecs == 5
finalRetrierAttempts == 3
minParts == 2
StatusOK == 200
anchorSkewSecs == 3
hoursPerDay == 24
alwaysSkip == -1
pageLimit == 100

\* ------------------------------------------------------------ data model
\* A nil pointer (Build.Failed, Build.Workflow, BuildSummaryOutput.User,
\* BuildSummaryOutput.Workflow) is the value Nil; a workflow is represented
\* by its WorkflowID, a user by its Username, *bool by "true" / "false".
Nil == "nil"

\* error values: nil, or an error with the data its message is formatted from
NilErr == [kind |-> "nil", reponame |-> "", buildNum |-> 0, detail |-> ""]
Error(kind, reponame, num, detail) ==
    [kind |-> kind, reponame |-> reponame, buildNum |-> num, detail |-> detail]
\* WaitForProjectBuild / runBuilds have not returned yet
Running == Error("running", "", 0, "")
\* a nil pointer dereference ends the goroutine with a runtime panic
Panic == Error("panic", "", 0, "")
\* the error a request returns when it fails
RequestFailed(op) == Error("RequestError", "", 0, op)
timeoutExceededError == Error("timeoutExceededError", "", 0, "time expired while running the checker")

Projects == {"test1", "test2"}
\* build selectors (BuildProjectInput)
Inputs == {[Branch |-> "master", Revision |-> "", Tag |-> ""]}
JobTimeouts == {MaxJobTimeout}
WaitTimeouts == {MaxWaitTimeout}

\* what GET /project/.../<buildNum> can decode into
Builds ==
    [Lifecycle : {lifecycleFinished}, Failed : {"true", "false", Nil},
     Workflow : {Nil, "w1", "w2"}]
    \cup [Lifecycle : {"queued", "running"}, Failed : {"false", Nil}, Workflow : {"w1"}]
NoBuild == [Lifecycle |-> "", Failed |-> Nil, Workflow |-> Nil]

Summary(num, user, lifecycle, workflow, status, branch) ==
    [BuildNum |-> num, User |-> user, Lifecycle |-> lifecycle, Workflow |-> workflow,
     Status |-> status, Branch |-> branch, Revision |-> "d8cbe5", VcsTag |-> "",
     Reponame |-> "test1"]
\* the summaries the remote lists while the next build is looked for: two
\* unfinished builds of each workflow, and for each condition of the search
\* one summary that fails that condition alone
NextBuildPool ==
    { Summary(2, "me", "running", "w1", "running", "master"),
      Summary(3, "me", "queued", "w1", "queued", "master"),
      Summary(3, "me", "running", "w2", "running", "master"),
      Summary(2, "me", lifecycleFinished, "w1", "failed", "master"),
      Summary(3, "other", "running", "w1", "running", "master"),
      Summary(2, "me", "running", Nil, "running", "master"),
      Summary(3, "me", "running", "w1", "running", "dev"),
      Summary(2, Nil, "running", "w1", "running", "master") }
\* the summaries the remote lists for the final validation: a successful and
\* a failed build of each workflow, and for each other condition of the
\* validation one unsuccessful summary that fails that condition alone
FinalPool ==
    { Summary(1, "me", lifecycleFinished, "w1", "success", "master"),
      Summary(2, "me", lifecycleFinished, "w1", "failed", "master"),
      Summary(3, "other", "running", "w2", "running", "master"),
      Summary(2, "me", lifecycleFinished, Nil, "failed", "master"),
      Summary(3, "me", lifecycleFinished, "w1", "canceled", "dev") }
ListingsOf(pool) == UNION {[1..n -> pool] : n \in 0..MaxSummaries}
\* what a listing call can end with: nfail failed requests, then the listing
ListingReplies(pool, attempts) ==
    {[nfail |-> k, listing |-> l] : k \in 0..(attempts - 1), l \in ListingsOf(pool)}
    \cup {[nfail |-> attempts, listing |-> <<>>]}
\* what GetBuild can end with
BuildReplies ==
    {[nfail |-> k, resp |-> b] : k \in 0..(retrierAttempts - 1), b \in Builds}
    \cup {[nfail |-> retrierAttempts, resp |-> NoBuild]}

\* the repository URLs of the build file, as url.Parse splits them: the
\* labels of the host and the parts of the trimmed path
URLParts(rawurl) ==
    CASE rawurl = "https://github.com/org/test1" ->
           [host |-> <<"github", "com">>, path |-> <<"org", "test1">>]
      [] rawurl = "https://github.com/org/test2" ->
           [host |-> <<"github", "com">>, path |-> <<"org", "test2">>]
      [] rawurl = "https://github.com/org" ->
           [host |-> <<"github", "com">>, path |-> <<"org">>]
      [] OTHER -> [host |-> <<>>, path |-> <<>>]

\* an entry of the build file
Entry(name, url, cof) ==
    [Name |-> name, URL |-> url, Branch |-> "master", Tag |-> "", Commit |-> "",
     ContinueOnFail |-> cof]
EntryPool ==
    { Entry("", "", FALSE),
      Entry("test1", "https://github.com/org/test1", FALSE),
      Entry("test2", "https://github.com/org/test2", TRUE),
      Entry("org", "https://github.com/org", FALSE) }
EntryLists == UNION {[1..n -> EntryPool] : n \in 1..MaxEntries}

\* the last call of the remote API the client made: the operation, the
\* function that made it, the build number asked for, whether the remote
\* answered within the retries, and the lifecycle a GetBuild reported
Call(op, by, num, ok, seen) ==
    [op |-> op, by |-> by, buildNum |-> num, ok |-> ok, seen |-> seen]
NoCall == Call("none", "", 0, TRUE, "")

\* ---- BuildProject
\* the statuses the decoded trigger response carries
TriggerStatuses == {StatusOK, 500}
\* the seconds the trigger requests take to answer
TriggerLatencies == {0, MaxTriggerLatency}
\* the selectors BuildProject is called with: by branch, by revision and tag
CorrelationInputs ==
    { [Branch |-> "master", Revision |-> "", Tag |-> ""],
      [Branch |-> "", Revision |-> "d8cbe5", Tag |-> "v1"] }
\* a summary with its queued timestamp: <<>> when usage_queued_at is absent,
\* <<t>> when the build was queued at second t
QueuedSummary(num, user, branch, revision, tag, queuedAt) ==
    [Summary(num, user, "queued", "w1", "queued", branch)
        EXCEPT !.Revision = revision, !.VcsTag = tag] @@ [QueuedAt |-> queuedAt]
\* the nil *BuildSummaryOutput
NoSummary == QueuedSummary(0, Nil, "", "", "", <<>>)
\* the summaries the remote lists during the correlation: builds of the
\* current user that match the selectors, without queued timestamp, queued
\* at the earliest anchor, queued when the trigger was sent and queued after
\* every anchor; and late builds that fail one other condition: another
\* user, another branch and tag, another revision, no user
CorrelationPool ==
    { QueuedSummary(10, "me", "master", "d8cbe5", "v1", <<>>),
      QueuedSummary(11, "me", "master", "d8cbe5", "v1", <<0 - anchorSkewSecs>>),
      QueuedSummary(12, "me", "master", "d8cbe5", "v1", <<0>>),
      QueuedSummary(15, "me", "master", "d8cbe5", "v1", <<98>>),
      QueuedSummary(16, "other", "master", "d8cbe5", "v1", <<99>>),
      QueuedSummary(17, "me", "dev", "d8cbe5", "v2", <<99>>),
      QueuedSummary(18, "me", "master", "0a1b2c", "v1", <<99>>),
      QueuedSummary(19, Nil, "master", "d8cbe5", "v1", <<99>>) }

VARIABLES
    pc,              \* where WaitForProjectBuild stands
    project,         \* project.Reponame
    input,           \* the build selector
    continueOnFail,
    jobTimeout,
    waitTimeout,
    buildNum,        \* the build being waited on
    build,           \* the build waitForBuild returned last
    me,              \* the user waitForNextBuild fetched
    now,             \* the clock
    endTime,         \* the deadline of the wait in progress
    summaries,       \* the listing the last decision was taken from (a next
                     \* build found, the final validation); <<>> otherwise
    result,          \* what WaitForProjectBuild returned
    lastCall,        \* the last remote call issued
    waited,          \* the build numbers waited on, in order
    observed,        \* the finished builds waitForBuild returned, in order
    failedFetches,   \* failed GetBuild calls of the wait in progress
    entries,         \* the build file given to runBuilds
    noSkip,          \* the -noskip flag
    idx,             \* the entry runBuilds is at (1-based)
    rpc,             \* where runBuilds stands in its loop body
    runResult,       \* what runBuilds returned
    bpc,             \* where BuildProject stands
    sentAt,          \* when the first trigger request was sent
    output,          \* the status of the decoded trigger response
    after,           \* the time anchor of the correlation
    bpSummary,       \* the summary findBuildSummary returned last
    findErr,         \* the error findBuildSummary returned last
    bpResult,        \* the error BuildProject returned
    triggers,        \* the trigger requests BuildProject sent, and those answered
    retrierRun,      \* a call of retrier: its arguments and what it returned
    waiterRun,       \* a call of waiter: its arguments, its loop and its result
    matchRun,        \* a call of matchSummary
    filterRun,       \* calls of FilterBuildSummariesByWorkflowStatus
    skipRun,         \* calls of shouldSkip
    findRun,         \* a call of FindBuildSummaries
    followRun,       \* a call of FollowProject or UnfollowProject
    projectRun       \* a call of FindProject

trackerVars == <<pc, project, input, continueOnFail, jobTimeout, waitTimeout, buildNum,
                 build, me, now, endTime, summaries, result, lastCall, waited, observed,
                 failedFetches>>
runVars == <<entries, noSkip, idx, rpc, runResult>>
bpVars == <<bpc, sentAt, output, after, bpSummary, findErr, bpResult, triggers>>
callVars == <<retrierRun, waiterRun, matchRun, filterRun, skipRun, findRun, followRun,
              projectRun>>
vars == <<trackerVars, runVars, bpVars, callVars>>

\* ------------------------------------------------------------- helpers.go
\* (mutant) the loop does not stop at a success
RECURSIVE retrierLoop_NoEarlyReturn(_, _, _, _, _)
retrierLoop_NoEarlyReturn(intervalSecs, attempts, fn, attempt, acc) ==
    IF attempt < attempts
    THEN LET err == fn[attempt + 1] IN
         retrierLoop_NoEarlyReturn(intervalSecs, attempts, fn, attempt + 1,
                                   [err |-> err, invoked |-> acc.invoked + 1,
                                    slept |-> IF err = NilErr THEN acc.slept
                                              ELSE acc.slept + intervalSecs])
    ELSE acc

\* fn is the sequence of errors the successive invocations of the operation
\* return.  The result carries the error returned, the number of invocations
\* and the seconds slept.
\* (mutant) the operation is invoked before the attempts are counted
RECURSIVE retrierLoop_AtLeastOnce(_, _, _, _, _)
retrierLoop_AtLeastOnce(intervalSecs, attempts, fn, attempt, acc) ==
    IF attempt < attempts \/ attempt = 0
    THEN LET err == fn[attempt + 1] IN
         IF err = NilErr
         THEN [err |-> NilErr, invoked |-> acc.invoked + 1, slept |-> acc.slept]
         ELSE retrierLoop_AtLeastOnce(intervalSecs, attempts, fn, attempt + 1,
                                      [err |-> err, invoked |-> acc.invoked + 1,
                                       slept |-> acc.slept + intervalSecs])
    ELSE acc

RECURSIVE retrierLoop(_, _, _, _, _)
retrierLoop(intervalSecs, attempts, fn, attempt, acc) ==
    IF attempt < attempts
    THEN LET err == fn[attempt + 1] IN
         IF err = NilErr
         THEN [err |-> NilErr, invoked |-> acc.invoked + 1, slept |-> acc.slept]
         ELSE retrierLoop(intervalSecs, attempts, fn, attempt + 1,
                          [err |-> err, invoked |-> acc.invoked + 1,
                           slept |-> acc.slept + intervalSecs])
    ELSE acc

retrier(intervalSecs, attempts, fn) ==
    retrierLoop(intervalSecs, attempts, fn, 0, [err |-> NilErr, invoked |-> 0, slept |-> 0])

\* the requester fails nfail times and then succeeds
RequestOutcomes(op, attempts, nfail) ==
    [i \in 1..attempts |-> IF i <= nfail THEN RequestFailed(op) ELSE NilErr]

\* a call of retrier that has not returned / that has returned r
RetrierRun(intervalSecs, attempts, fn, returned, r) ==
    [intervalSecs |-> intervalSecs, attempts |-> attempts, fn |-> fn,
     returned |-> returned, err |-> r.err, invoked |-> r.invoked, slept |-> r.slept]
NoRetrierRun ==
    RetrierRun(0, 0, <<>>, FALSE, [err |-> NilErr, invoked |-> 0, slept |-> 0])
\* the operations retrier is given: what each invocation would return,
\* success or one of two errors
RetrierOperations == [1..MaxAttempts -> {NilErr, RequestFailed("a"), RequestFailed("b")}]

\* time.Time.After
After(t, u) == t > u

\* returns true as soon as one non-empty field matches
matchSummary_AnyFieldMatches(bpi, summary) ==
    IF Len(bpi.Tag) > 0 /\ summary.VcsTag = bpi.Tag THEN TRUE
    ELSE IF Len(bpi.Revision) > 0 /\ summary.Revision = bpi.Revision THEN TRUE
    ELSE IF Len(bpi.Branch) > 0 /\ summary.Branch = bpi.Branch THEN TRUE
    ELSE bpi.Tag = "" /\ bpi.Revision = "" /\ bpi.Branch = ""

matchSummary(bpi, summary) ==
    IF Len(bpi.Tag) > 0 /\ summary.VcsTag # bpi.Tag THEN FALSE
    ELSE IF Len(bpi.Revision) > 0 /\ summary.Revision # bpi.Revision THEN FALSE
    ELSE IF Len(bpi.Branch) > 0 /\ summary.Branch # bpi.Branch THEN FALSE
    ELSE TRUE

\* ------------------------------------------------- calls of the helpers
\* the empty map[string]string
NoWorkflows == [w \in {} |-> ""]

\* no call of waiter, of matchSummary, of
\* FilterBuildSummariesByWorkflowStatus, of shouldSkip is in progress
NoWaiterRun ==
    [interval |-> 0, endTime |-> 0, now |-> 0, checker |-> <<>>, count |-> 0,
     invoked |-> 0, starts |-> <<>>, returned |-> FALSE, err |-> NilErr]
NoMatchRun ==
    [bpi |-> [Branch |-> "", Revision |-> "", Tag |-> ""],
     summary |-> [VcsTag |-> "", Revision |-> "", Branch |-> ""],
     returned |-> FALSE, result |-> FALSE]
NoFilterRun ==
    [phase |-> "idle", input |-> <<>>, status |-> "", i |-> 0,
     workflows |-> NoWorkflows, visited |-> <<>>, output |-> <<>>,
     round |-> 0, mode |-> "", prevOutput |-> <<>>, prevWorkflows |-> NoWorkflows,
     prevVisited |-> <<>>]
NoSkipRun ==
    [history |-> <<>>, findErr |-> NilErr, skipDays |-> 0, otherDays |-> 0,
     now |-> 0, returned |-> FALSE, skip |-> FALSE, err |-> NilErr,
     otherSkip |-> FALSE, otherErr |-> NilErr]
\* no call of FindBuildSummaries, of FollowProject or UnfollowProject, of
\* FindProject is in progress
NoFindRun ==
    [phase |-> "idle", bpi |-> [Branch |-> "", Revision |-> "", Tag |-> ""],
     reponame |-> "", me |-> Nil, offset |-> 0, offsets |-> <<>>, pageLens |-> <<>>,
     meCalls |-> 0, fetched |-> <<>>, output |-> <<>>, err |-> NilErr]
NoFollowRun ==
    [method |-> "", outcomes |-> <<>>, following |-> FALSE, requests |-> 0,
     returned |-> FALSE, err |-> NilErr]
NoProjectRun ==
    [projects |-> <<>>, nfail |-> 0, matcher |-> {}, returned |-> FALSE,
     project |-> <<>>, err |-> NilErr]
NoCalls ==
    /\ retrierRun = NoRetrierRun
    /\ waiterRun = NoWaiterRun
    /\ matchRun = NoMatchRun
    /\ filterRun = NoFilterRun
    /\ skipRun = NoSkipRun
    /\ findRun = NoFindRun
    /\ followRun = NoFollowRun
    /\ projectRun = NoProjectRun

\* ------------------------------------------------------ remote API calls
\* Client.GetBuild: the request under the retrier; resp is what a successful
\* request decodes
GetBuild(nfail, resp) ==
    LET r == retrier(retrierIntervalSecs, retrierAttempts,
                     RequestOutcomes("GetBuild", retrierAttempts, nfail))
    IN [err |-> r.err, build |-> IF r.err = NilErr THEN resp ELSE NoBuild, slept |-> r.slept]

\* Client.Me
Me(nfail) ==
    LET r == retrier(retrierIntervalSecs, retrierAttempts,
                     RequestOutcomes("Me", retrierAttempts, nfail))
    IN [err |-> r.err, user |-> IF r.err = NilErr THEN "me" ELSE Nil, slept |-> r.slept]

\* Client.BuildSummary: a failed listing returns the nil slice
BuildSummary(nfail, listing) ==
    LET r == retrier(retrierIntervalSecs, retrierAttempts,
                     RequestOutcomes("BuildSummary", retrierAttempts, nfail))
    IN [err |-> r.err, summaries |-> IF r.err = NilErr THEN listing ELSE <<>>,
        slept |-> r.slept]

\* ------------------------------------------------- finalWorkflowStatus
\* (mutant) the validation forgets to compare the workflow id
RECURSIVE finalWorkflowScan_AnyWorkflow(_, _, _, _)
finalWorkflowScan_AnyWorkflow(list, bpi, workflowID, i) ==
    IF i > Len(list) THEN NilErr
    ELSE LET s == list[i] IN
         IF /\ matchSummary(bpi, s)
            /\ s.Workflow # Nil
            /\ s.Status # "success"
         THEN Error("WorkflowFailed", s.Reponame, 0, s.Status)
         ELSE finalWorkflowScan_AnyWorkflow(list, bpi, workflowID, i + 1)

\* the loop over the summaries: the first summary of the workflow that matches
\* the selector and has a status other than success makes it fail
RECURSIVE finalWorkflowScan(_, _, _, _)
finalWorkflowScan(list, bpi, workflowID, i) ==
    IF i > Len(list) THEN NilErr
    ELSE LET s == list[i] IN
         IF /\ matchSummary(bpi, s)
            /\ s.Workflow # Nil
            /\ s.Workflow = workflowID
            /\ s.Status # "success"
         THEN Error("WorkflowFailed", s.Reponame, 0, s.Status)
         ELSE finalWorkflowScan(list, bpi, workflowID, i + 1)

\* nfail: how many calls of BuildSummary fail (each after its own retries)
\* before one returns listing
finalWorkflowStatus(bpi, workflowID, nfail, listing) ==
    LET r == retrier(finalRetrierIntervalSecs, finalRetrierAttempts,
                     RequestOutcomes("BuildSummary", finalRetrierAttempts, nfail))
    IN IF r.err # NilErr
       THEN [err |-> Error("SummariesFailed", "", 0, r.err.detail), summaries |-> <<>>]
       ELSE [err |-> finalWorkflowScan(listing, bpi, workflowID, 1), summaries |-> listing]

\* ------------------------------------------------------ waitForNextBuild
\* (mutant) the search forgets that the next build must not be finished
RECURSIVE nextBuildScan_IgnoresLifecycle(_, _, _, _, _)
nextBuildScan_IgnoresLifecycle(list, bpi, user, workflowID, i) ==
    IF i > Len(list) THEN [found |-> 0, panic |-> FALSE]
    ELSE LET s == list[i] IN
         IF ~matchSummary(bpi, s)
         THEN nextBuildScan_IgnoresLifecycle(list, bpi, user, workflowID, i + 1)
         ELSE IF s.User = Nil THEN [found |-> 0, panic |-> TRUE]
         ELSE IF /\ s.User = user
                 /\ s.Workflow # Nil
                 /\ s.Workflow = workflowID
              THEN [found |-> i, panic |-> FALSE]
              ELSE nextBuildScan_IgnoresLifecycle(list, bpi, user, workflowID, i + 1)

\* the loop of the checker over one listing: the index of the summary
\* found (0: none), or a panic on a summary without user
RECURSIVE nextBuildScan(_, _, _, _, _)
nextBuildScan(list, bpi, user, workflowID, i) ==
    IF i > Len(list) THEN [found |-> 0, panic |-> FALSE]
    ELSE LET s == list[i] IN
         IF ~matchSummary(bpi, s) THEN nextBuildScan(list, bpi, user, workflowID, i + 1)
         ELSE IF s.User = Nil THEN [found |-> 0, panic |-> TRUE]
         ELSE IF /\ s.User = user
                 /\ s.Lifecycle # lifecycleFinished
                 /\ s.Workflow # Nil
                 /\ s.Workflow = workflowID
              THEN [found |-> i, panic |-> FALSE]
              ELSE nextBuildScan(list, bpi, user, workflowID, i + 1)

\* --------------------------------------------------- WaitForProjectBuild
\* (mutant) the failure flag is not looked at
buildVerdict_IgnoresFailed(b, cof, reponame, num) ==
    IF b.Workflow = Nil THEN Error("MissingWorkflowDetails", "", num, "")
    ELSE Running

\* (mutant) a failed build is an error also under continue-on-fail
buildVerdict_IgnoresContinueOnFail(b, cof, reponame, num) ==
    IF b.Failed = Nil THEN Panic
    ELSE IF b.Failed = "true" THEN Error("BuildFailed", reponame, num, "")
    ELSE IF b.Workflow = Nil THEN Error("MissingWorkflowDetails", "", num, "")
    ELSE Running

\* (mutant) a build without workflow goes on to the next-build search
buildVerdict_NoWorkflowCheck(b, cof, reponame, num) ==
    IF b.Failed = Nil THEN Panic
    ELSE IF b.Failed = "true"
         THEN IF cof THEN NilErr ELSE Error("BuildFailed", reponame, num, "")
    ELSE Running

\* (mutant) continue-on-fail is read as "go on with the workflow": a failed
\* build is followed by the search for the next build
buildVerdict_ContinueOnFailGoesOn(b, cof, reponame, num) ==
    IF b.Failed = Nil THEN Panic
    ELSE IF b.Failed = "true" /\ ~cof THEN Error("BuildFailed", reponame, num, "")
    ELSE IF b.Workflow = Nil THEN Error("MissingWorkflowDetails", "", num, "")
    ELSE Running

\* what WaitForProjectBuild does with the build waitForBuild returned:
\* the error (or nil) it returns, or Running when it goes on to
\* waitForNextBuild
buildVerdict(b, cof, reponame, num) ==
    IF b.Failed = Nil THEN Panic
    ELSE IF b.Failed = "true"
         THEN IF cof THEN NilErr ELSE Error("BuildFailed", reponame, num, "")
    ELSE IF b.Workflow = Nil THEN Error("MissingWorkflowDetails", "", num, "")
    ELSE Running

\* (mutant) the timeout of the search is returned like any other error
nextBuildErrorIsEndOfWorkflow_Never(err) == FALSE

\* what WaitForProjectBuild does with an error of waitForNextBuild
nextBuildErrorIsEndOfWorkflow(err) == err.kind = "timeoutExceededError"

\* (mutant) any build fetched without error ends the wait
waitForBuildFetch_AnyLifecycle(g) ==
    IF g.err # NilErr THEN "continue" ELSE "return"

\* (mutant) a failed fetch ends the wait
waitForBuildFetch_ErrorEndsWait(g) ==
    IF g.err # NilErr THEN "return"
    ELSE IF g.build.Lifecycle = lifecycleFinished THEN "return"
    ELSE "count"

\* what one GetBuild means to the loop of waitForBuild
waitForBuildFetch(g) ==
    IF g.err # NilErr THEN "continue"
    ELSE IF g.build.Lifecycle = lifecycleFinished THEN "return"
    ELSE "count"

\* (mutant) continue-on-fail turns the job timeout into success
jobTimeoutError_ContinueOnFail(reponame, num) ==
    IF continueOnFail THEN NilErr ELSE Error("JobTimeoutExceeded", reponame, num, "")

\* the error waitForBuild returns when the job deadline has passed
jobTimeoutError(reponame, num) == Error("JobTimeoutExceeded", reponame, num, "")

\* BuildProject is not running
\* no trigger request has been sent
NoTriggers == [sent |-> 0, answered |-> 0]

BuildProjectIdle ==
    /\ bpc = "idle"
    /\ triggers = NoTriggers
    /\ sentAt = 0
    /\ output = 0
    /\ after = 0
    /\ bpSummary = NoSummary
    /\ findErr = NilErr
    /\ bpResult = Running

Init ==
    /\ pc = "waitForBuild"
    /\ project \in Projects
    /\ input \in Inputs
    /\ continueOnFail \in BOOLEAN
    /\ jobTimeout \in JobTimeouts
    /\ waitTimeout \in WaitTimeouts
    /\ buildNum = 1
    /\ build = NoBuild
    /\ me = Nil
    /\ now = 0
    /\ endTime = jobTimeout
    /\ summaries = <<>>
    /\ result = Running
    /\ lastCall = NoCall
    /\ waited = <<1>>
    /\ observed = <<>>
    /\ failedFetches = 0
    /\ entries = <<>>
    /\ noSkip = FALSE
    /\ idx = 0
    /\ rpc = "none"
    /\ runResult = Running
    /\ BuildProjectIdle
    /\ NoCalls

params == <<project, input, continueOnFail, jobTimeout, waitTimeout>>

\* (mutant) the deadline is computed inside the loop: when it has passed the
\* wait starts over instead of returning
WaitForBuildTimeout_RestartsDeadline ==
    /\ pc = "waitForBuild"
    /\ After(now, endTime)
    /\ now' = 0
    /\ failedFetches' = 0
    /\ summaries' = <<>>
    /\ UNCHANGED <<params, pc, result, buildNum, build, me, endTime, lastCall, waited,
                   observed>>
    /\ UNCHANGED <<runVars, bpVars, callVars>>

\* waitForBuild, top of the loop: the job deadline has passed
WaitForBuildTimeout ==
    /\ pc = "waitForBuild"
    /\ After(now, endTime)
    /\ pc' = "done"
    /\ result' = jobTimeoutError(project, buildNum)
    /\ summaries' = <<>>
    /\ UNCHANGED <<params, buildNum, build, me, now, endTime, lastCall, waited,
                   observed, failedFetches>>
    /\ UNCHANGED <<runVars, bpVars, callVars>>

\* waitForBuild, one iteration: sleep, GetBuild; when the build is finished
\* WaitForProjectBuild inspects it
WaitForBuildPoll ==
    /\ pc = "waitForBuild"
    /\ ~After(now, endTime)
    /\ \E reply \in BuildReplies :
         LET g == GetBuild(reply.nfail, reply.resp)
             step == waitForBuildFetch(g)
             verdict == buildVerdict(g.build, continueOnFail, project, buildNum)
         IN /\ now' = now + sleepSec + g.slept
            /\ lastCall' = Call("GetBuild", "waitForBuild", buildNum,
                                reply.nfail < retrierAttempts, reply.resp.Lifecycle)
            /\ summaries' = <<>>
            /\ IF step = "return"
               THEN /\ build' = g.build
                    /\ observed' = Append(observed, g.build)
                    /\ result' = verdict
                    /\ pc' = IF verdict = Running THEN "waitForNextBuild" ELSE "done"
                    /\ UNCHANGED failedFetches
               ELSE /\ failedFetches' = IF step = "continue" THEN failedFetches + 1
                                        ELSE failedFetches
                    /\ UNCHANGED <<build, observed, result, pc>>
    /\ UNCHANGED <<params, buildNum, me, endTime, waited>>
    /\ UNCHANGED <<runVars, bpVars, callVars>>

\* waitForNextBuild, entry: fetch the current user, compute the deadline
WaitForNextBuildEnter ==
    /\ pc = "waitForNextBuild"
    /\ \E nfail \in 0..retrierAttempts :
         LET m == Me(nfail) IN
         /\ lastCall' = Call("Me", "waitForNextBuild", 0, nfail < retrierAttempts, "")
         /\ IF m.err # NilErr
            THEN /\ result' = m.err
                 /\ pc' = "done"
                 /\ UNCHANGED <<me, now, endTime>>
            ELSE /\ me' = m.user
                 /\ now' = 0
                 /\ endTime' = waitTimeout
                 /\ pc' = "waiter"
                 /\ UNCHANGED result
    /\ UNCHANGED <<params, buildNum, build, summaries, waited, observed, failedFetches>>
    /\ UNCHANGED <<runVars, bpVars, callVars>>

\* waiter, top of the loop: the wait deadline has passed; WaitForProjectBuild
\* receives the timeoutExceededError
WaiterTimeout ==
    /\ pc = "waiter"
    /\ After(now, endTime)
    /\ IF nextBuildErrorIsEndOfWorkflow(timeoutExceededError)
       THEN pc' = "finalWorkflowStatus" /\ UNCHANGED result
       ELSE pc' = "done" /\ result' = timeoutExceededError
    /\ summaries' = <<>>
    /\ UNCHANGED <<params, buildNum, build, me, now, endTime, lastCall, waited,
                   observed, failedFetches>>
    /\ UNCHANGED <<runVars, bpVars, callVars>>

\* waiter, one iteration: sleep, list the summaries, look for the next build
WaiterPollFrom(replies, chain) ==
    /\ pc = "waiter"
    /\ ~After(now, endTime)
    /\ \E reply \in replies :
         LET l == BuildSummary(reply.nfail, reply.listing)
             scan == nextBuildScan(l.summaries, input, me, build.Workflow, 1)
         IN /\ scan.found > 0 => Len(waited) < chain
            /\ lastCall' = Call("BuildSummary", "waitForNextBuild", 0,
                                reply.nfail < retrierAttempts, "")
            /\ summaries' = IF scan.found > 0 \/ scan.panic THEN l.summaries ELSE <<>>
            /\ IF scan.panic
               THEN /\ pc' = "done"
                    /\ result' = Panic
                    /\ now' = now + waiterIntervalSecs + l.slept
                    /\ UNCHANGED <<buildNum, endTime, waited, failedFetches>>
               ELSE IF scan.found > 0
               THEN /\ pc' = "waitForBuild"
                    /\ buildNum' = l.summaries[scan.found].BuildNum
                    /\ waited' = Append(waited, l.summaries[scan.found].BuildNum)
                    /\ now' = 0
                    /\ endTime' = jobTimeout
                    /\ failedFetches' = 0
                    /\ UNCHANGED result
               ELSE /\ now' = now + waiterIntervalSecs + l.slept
                    /\ UNCHANGED <<pc, result, buildNum, endTime, waited, failedFetches>>
    /\ UNCHANGED <<params, build, me, observed>>
    /\ UNCHANGED <<runVars, bpVars, callVars>>

\* the listings of the remote while the next build is looked for, and the
\* number of builds the tracker follows
WaiterPoll == WaiterPollFrom(ListingReplies(NextBuildPool, retrierAttempts), MaxChain)

\* a remote that is consistent: a build GetBuild reported finished (every
\* build waited on so far, once the next one is looked for) is not listed
\* with an unfinished lifecycle afterwards.  Its listings hold running and
\* finished summaries of the builds 1..MaxWaited of the workflow.
ChainPool ==
    {Summary(n, "me", lc, "w1", lc, "master") :
        n \in 1..MaxWaited, lc \in {"running", lifecycleFinished}}
ConsistentReplies ==
    {r \in ListingReplies(ChainPool, retrierAttempts) :
        \A k \in DOMAIN r.listing :
            r.listing[k].Lifecycle # lifecycleFinished
                => r.listing[k].BuildNum \notin {waited[j] : j \in DOMAIN waited}}
WaiterPollConsistent == WaiterPollFrom(ConsistentReplies, MaxWaited)

\* the final validation of the workflow of the build that finished last
FinalWorkflowStatus ==
    /\ pc = "finalWorkflowStatus"
    /\ \E reply \in ListingReplies(FinalPool, finalRetrierAttempts) :
         LET f == finalWorkflowStatus(input, build.Workflow, reply.nfail, reply.listing) IN
         /\ result' = f.err
         /\ summaries' = f.summaries
         /\ lastCall' = Call("BuildSummary", "finalWorkflowStatus", 0,
                             reply.nfail < finalRetrierAttempts, "")
    /\ pc' = "done"
    /\ UNCHANGED <<params, buildNum, build, me, now, endTime, waited, observed,
                   failedFetches>>
    /\ UNCHANGED <<runVars, bpVars, callVars>>

\* ------------------------------------------------------------ BuildProject
summaryNotFoundError(reponame) == Error("summaryNotFoundError", reponame, 0, "")

\* (mutant) the status of the trigger response is not looked at
triggerVerdict_IgnoresStatus(err, status) ==
    IF err # NilErr THEN err ELSE Running

\* what BuildProject does with the outcome of the trigger: the error it
\* returns, or Running when it goes on to the correlation
triggerVerdict(err, status) ==
    IF err # NilErr THEN err
    ELSE IF status # StatusOK THEN Error("FailedToStartBuild", "", 0, "")
    ELSE Running

\* time.Now().Add(-3 * time.Second)
anchorOf(t) == t - anchorSkewSecs

\* (mutant) a build queued at the anchor is taken
RECURSIVE findBuildSummaryScan_AnchorInclusive(_, _, _, _, _)
findBuildSummaryScan_AnchorInclusive(list, bpi, user, anchor, i) ==
    IF i > Len(list) THEN [found |-> 0, panic |-> FALSE]
    ELSE LET s == list[i] IN
         IF Len(s.QueuedAt) = 0
         THEN findBuildSummaryScan_AnchorInclusive(list, bpi, user, anchor, i + 1)
         ELSE IF ~matchSummary(bpi, s)
         THEN findBuildSummaryScan_AnchorInclusive(list, bpi, user, anchor, i + 1)
         ELSE IF s.User = Nil THEN [found |-> 0, panic |-> TRUE]
         ELSE IF s.User = user /\ s.QueuedAt[1] - anchor >= 0
              THEN [found |-> i, panic |-> FALSE]
              ELSE findBuildSummaryScan_AnchorInclusive(list, bpi, user, anchor, i + 1)

\* (mutant) the user of the build is not compared
RECURSIVE findBuildSummaryScan_IgnoresUser(_, _, _, _, _)
findBuildSummaryScan_IgnoresUser(list, bpi, user, anchor, i) ==
    IF i > Len(list) THEN [found |-> 0, panic |-> FALSE]
    ELSE LET s == list[i] IN
         IF Len(s.QueuedAt) = 0
         THEN findBuildSummaryScan_IgnoresUser(list, bpi, user, anchor, i + 1)
         ELSE IF ~matchSummary(bpi, s)
         THEN findBuildSummaryScan_IgnoresUser(list, bpi, user, anchor, i + 1)
         ELSE IF s.User = Nil THEN [found |-> 0, panic |-> TRUE]
         ELSE IF s.QueuedAt[1] - anchor > 0
              THEN [found |-> i, panic |-> FALSE]
              ELSE findBuildSummaryScan_IgnoresUser(list, bpi, user, anchor, i + 1)

\* the loop of findBuildSummary over one listing: the index of the summary
\* returned (0: none), or a panic on a summary without user
RECURSIVE findBuildSummaryScan(_, _, _, _, _)
findBuildSummaryScan(list, bpi, user, anchor, i) ==
    IF i > Len(list) THEN [found |-> 0, panic |-> FALSE]
    ELSE LET s == list[i] IN
         IF Len(s.QueuedAt) = 0 THEN findBuildSummaryScan(list, bpi, user, anchor, i + 1)
         ELSE IF ~matchSummary(bpi, s)
         THEN findBuildSummaryScan(list, bpi, user, anchor, i + 1)
         ELSE IF s.User = Nil THEN [found |-> 0, panic |-> TRUE]
         ELSE IF s.User = user /\ s.QueuedAt[1] - anchor > 0
              THEN [found |-> i, panic |-> FALSE]
              ELSE findBuildSummaryScan(list, bpi, user, anchor, i + 1)

\* findBuildSummary: the listing, then the current user, then the scan.
\* lnfail / mnfail: the requests of the listing / of the user fetch that fail
\* before one succeeds.  call is the last remote call it made.
findBuildSummary(bpi, reponame, anchor, lnfail, listing, mnfail) ==
    LET l == BuildSummary(lnfail, listing)
        m == Me(mnfail)
        scan == findBuildSummaryScan(l.summaries, bpi, m.user, anchor, 1)
    IN IF l.err # NilErr
       THEN [err |-> l.err, summary |-> NoSummary, summaries |-> <<>>, user |-> Nil,
             call |-> Call("BuildSummary", "findBuildSummary", 0, FALSE, ""),
             slept |-> l.slept, panic |-> FALSE]
       ELSE IF m.err # NilErr
       THEN [err |-> m.err, summary |-> NoSummary, summaries |-> l.summaries, user |-> Nil,
             call |-> Call("Me", "findBuildSummary", 0, FALSE, ""),
             slept |-> l.slept + m.slept, panic |-> FALSE]
       ELSE [err |-> IF scan.found > 0 \/ scan.panic THEN NilErr
                     ELSE summaryNotFoundError(reponame),
             summary |-> IF scan.found > 0 THEN l.summaries[scan.found] ELSE NoSummary,
             summaries |-> l.summaries, user |-> m.user,
             call |-> Call("Me", "findBuildSummary", 0, TRUE, ""),
             slept |-> l.slept + m.slept, panic |-> scan.panic]

\* (mutant) "not found" is returned to waiter like any other error
checkerVerdict_NotFoundIsFatal(err) ==
    IF err # NilErr THEN [done |-> FALSE, err |-> err]
    ELSE [done |-> TRUE, err |-> NilErr]

\* (mutant) every error of findBuildSummary means "not yet"
checkerVerdict_ErrorsAreRetried(err) ==
    IF err # NilErr THEN [done |-> FALSE, err |-> NilErr]
    ELSE [done |-> TRUE, err |-> NilErr]

\* what the checker of BuildProject returns to waiter for an error of
\* findBuildSummary
checkerVerdict(err) ==
    IF err # NilErr
    THEN IF err.kind = "summaryNotFoundError" THEN [done |-> FALSE, err |-> NilErr]
         ELSE [done |-> FALSE, err |-> err]
    ELSE [done |-> TRUE, err |-> NilErr]

bpFrame ==
    UNCHANGED <<pc, project, input, continueOnFail, jobTimeout, waitTimeout, buildNum,
                build, result, waited, observed, failedFetches, runVars, callVars,
                sentAt>>

\* the trigger: POST .../build under the retrier, the status check, the
\* anchor and the deadline of the correlation
BuildProjectTrigger ==
    /\ bpc = "trigger"
    /\ \E nfail \in 0..retrierAttempts, status \in TriggerStatuses,
          latency \in TriggerLatencies :
         LET fn == RequestOutcomes("BuildProject", retrierAttempts, nfail)
             r == retrier(retrierIntervalSecs, retrierAttempts, fn)
             verdict == triggerVerdict(r.err, status)
             returned == now + r.slept + latency
         IN /\ (r.err # NilErr) => (status = StatusOK)
            /\ triggers' = [sent |-> r.invoked,
                            answered |-> Cardinality({k \in 1..r.invoked : fn[k] = NilErr})]
            /\ now' = returned
            /\ lastCall' = Call("BuildProject", "BuildProject", 0, r.err = NilErr, "")
            /\ output' = IF r.err = NilErr THEN status ELSE 0
            /\ IF verdict # Running
               THEN /\ bpc' = "done"
                    /\ bpResult' = verdict
                    /\ UNCHANGED <<after, endTime>>
               ELSE /\ bpc' = "waiter"
                    /\ after' = anchorOf(returned)
                    /\ endTime' = returned + waitTimeout
                    /\ UNCHANGED bpResult
    /\ UNCHANGED <<me, summaries, bpSummary, findErr>>
    /\ bpFrame

\* waiter, top of the loop: the wait deadline has passed
BuildProjectWaiterTimeout ==
    /\ bpc = "waiter"
    /\ After(now, endTime)
    /\ bpc' = "done"
    /\ bpResult' = timeoutExceededError
    /\ UNCHANGED <<me, now, endTime, summaries, lastCall, output, after, bpSummary,
                   findErr, triggers>>
    /\ bpFrame

\* waiter, one iteration: sleep, findBuildSummary
FindBuildSummaryPoll ==
    /\ bpc = "waiter"
    /\ ~After(now, endTime)
    /\ \E reply \in ListingReplies(CorrelationPool, retrierAttempts),
          mnfail \in 0..retrierAttempts :
         LET f == findBuildSummary(input, project, after, reply.nfail, reply.listing, mnfail)
             v == checkerVerdict(f.err)
         IN /\ (reply.nfail = retrierAttempts) => (mnfail = 0)
            /\ now' = now + waiterIntervalSecs + f.slept
            /\ lastCall' = f.call
            /\ summaries' = f.summaries
            /\ me' = f.user
            /\ bpSummary' = f.summary
            /\ findErr' = f.err
            /\ IF f.panic THEN bpc' = "done" /\ bpResult' = Panic
               ELSE IF v.err # NilErr THEN bpc' = "done" /\ bpResult' = v.err
               ELSE IF v.done THEN bpc' = "done" /\ bpResult' = NilErr
               ELSE UNCHANGED <<bpc, bpResult>>
    /\ UNCHANGED <<endTime, output, after, triggers>>
    /\ bpFrame

InitBuild ==
    /\ bpc = "trigger"
    /\ sentAt = 0
    /\ output = 0
    /\ after = 0
    /\ bpSummary = NoSummary
    /\ findErr = NilErr
    /\ bpResult = Running
    /\ triggers = NoTriggers
    /\ project = "test1"
    /\ input \in CorrelationInputs
    /\ waitTimeout \in WaitTimeouts
    /\ now = 0
    /\ endTime = 0
    /\ me = Nil
    /\ summaries = <<>>
    /\ lastCall = NoCall
    /\ pc = "idle"
    /\ continueOnFail = FALSE
    /\ jobTimeout \in JobTimeouts
    /\ buildNum = 0
    /\ build = NoBuild
    /\ result = Running
    /\ waited = <<>>
    /\ observed = <<>>
    /\ failedFetches = 0
    /\ entries = <<>>
    /\ noSkip = FALSE
    /\ idx = 0
    /\ rpc = "none"
    /\ runResult = Running
    /\ NoCalls

NextBuild ==
    \/ BuildProjectTrigger
    \/ BuildProjectWaiterTimeout
    \/ FindBuildSummaryPoll

SpecBuild == InitBuild /\ [][NextBuild]_vars

\* ----------------------------------------------------------------- retrier
\* one call of retrier
RetrierCall ==
    /\ retrierRun.attempts > 0
    /\ ~retrierRun.returned
    /\ retrierRun' = RetrierRun(retrierRun.intervalSecs, retrierRun.attempts,
                                retrierRun.fn, TRUE,
                                retrier(retrierRun.intervalSecs, retrierRun.attempts,
                                        retrierRun.fn))
    /\ UNCHANGED <<trackerVars, runVars, bpVars, waiterRun, matchRun, filterRun, skipRun,
                 findRun, followRun, projectRun>>

\* neither runBuilds nor a method of the client is running
ClientIdle ==
    /\ BuildProjectIdle
    /\ project = ""
    /\ input = [Branch |-> "", Revision |-> "", Tag |-> ""]
    /\ waitTimeout \in WaitTimeouts
    /\ now = 0
    /\ endTime = 0
    /\ me = Nil
    /\ summaries = <<>>
    /\ lastCall = NoCall
    /\ pc = "idle"
    /\ continueOnFail = FALSE
    /\ jobTimeout \in JobTimeouts
    /\ buildNum = 0
    /\ build = NoBuild
    /\ result = Running
    /\ waited = <<>>
    /\ observed = <<>>
    /\ failedFetches = 0
    /\ entries = <<>>
    /\ noSkip = FALSE
    /\ idx = 0
    /\ rpc = "none"
    /\ runResult = Running

InitRetrier ==
    /\ retrierRun \in {RetrierRun(i, n, fn, FALSE, [err |-> NilErr, invoked |-> 0, slept |-> 0]) :
                          i \in {finalRetrierIntervalSecs, retrierIntervalSecs},
                          n \in 1..MaxAttempts, fn \in RetrierOperations}
    /\ waiterRun = NoWaiterRun
    /\ matchRun = NoMatchRun
    /\ filterRun = NoFilterRun
    /\ skipRun = NoSkipRun
    /\ findRun = NoFindRun
    /\ followRun = NoFollowRun
    /\ projectRun = NoProjectRun
    /\ ClientIdle

NextRetrier == RetrierCall

SpecRetrier == InitRetrier /\ [][NextRetrier]_vars

\* Client.Me when the process-wide retrierAttempts has the value attempts
\* and the requests return fn: the user decoded by the request that
\* succeeded, the zero-valued user when no request decoded one
MeWith(attempts, fn) ==
    LET r == retrier(retrierIntervalSecs, attempts, fn)
    IN [err |-> r.err,
        user |-> IF r.err # NilErr THEN Nil ELSE IF r.invoked = 0 THEN "" ELSE "me",
        run |-> r]

\* one call of Client.Me; retrierRun is the call of retrier it makes
MeCall ==
    /\ retrierRun # NoRetrierRun
    /\ ~retrierRun.returned
    /\ LET m == MeWith(retrierRun.attempts, retrierRun.fn)
       IN /\ retrierRun' = RetrierRun(retrierRun.intervalSecs, retrierRun.attempts,
                                      retrierRun.fn, TRUE, m.run)
          /\ me' = m.user
          /\ lastCall' = Call("Me", "Me", 0, m.err = NilErr, "")
    /\ UNCHANGED <<pc, project, input, continueOnFail, jobTimeout, waitTimeout, buildNum,
                   build, now, endTime, summaries, result, waited, observed,
                   failedFetches>>
    /\ UNCHANGED <<runVars, bpVars, waiterRun, matchRun, filterRun, skipRun, findRun,
                   followRun, projectRun>>

\* retrierAttempts is a variable of the package: any value, zero and
\* negative ones included
InitMe ==
    /\ retrierRun \in {RetrierRun(retrierIntervalSecs, n, fn, FALSE,
                                   [err |-> NilErr, invoked |-> 0, slept |-> 0]) :
                          n \in (0 - 1)..MaxAttempts, fn \in RetrierOperations}
    /\ waiterRun = NoWaiterRun
    /\ matchRun = NoMatchRun
    /\ filterRun = NoFilterRun
    /\ skipRun = NoSkipRun
    /\ findRun = NoFindRun
    /\ followRun = NoFollowRun
    /\ projectRun = NoProjectRun
    /\ ClientIdle

SpecMe == InitMe /\ [][MeCall]_vars

\* ---------------------------------------------------------------- runner.go
\* ProjectFromURL: the project, or the error of a URL with too few parts
ProjectFromURL(rawurl) ==
    LET u == URLParts(rawurl) IN
    IF Len(u.path) < minParts
    THEN [err |-> Error("PathNotProperlyFormatted", "", 0, rawurl), Reponame |-> ""]
    ELSE IF Len(u.host) < minParts
    THEN [err |-> Error("HostNotProperlyFormatted", "", 0, rawurl), Reponame |-> ""]
    ELSE [err |-> NilErr, Reponame |-> u.path[2]]

\* the selector runBuilds builds from an entry
EntryInput(e) == [Branch |-> e.Branch, Revision |-> e.Commit, Tag |-> e.Tag]

\* the tracker is not running
TrackerIdle ==
    /\ pc' = "idle"
    /\ project' = ""
    /\ input' = [Branch |-> "", Revision |-> "", Tag |-> ""]
    /\ continueOnFail' = FALSE
    /\ buildNum' = 0
    /\ build' = NoBuild
    /\ me' = Nil
    /\ now' = 0
    /\ endTime' = 0
    /\ summaries' = <<>>
    /\ result' = Running
    /\ waited' = <<>>
    /\ observed' = <<>>
    /\ failedFetches' = 0

\* logs the error of a step and goes on with the next entry
runReturn_NextEntry(err) ==
    IF err = NilErr
    THEN /\ runResult' = err
         /\ rpc' = "done"
         /\ UNCHANGED <<entries, noSkip, idx>>
    ELSE /\ idx' = idx + 1
         /\ rpc' = "entry"
         /\ UNCHANGED <<entries, noSkip, runResult>>
runReturn(err) ==
    /\ runResult' = err
    /\ rpc' = "done"
    /\ UNCHANGED <<entries, noSkip, idx>>

runGoto(label) ==
    /\ rpc' = label
    /\ UNCHANGED <<entries, noSkip, idx, runResult>>

runContinue ==
    /\ idx' = idx + 1
    /\ rpc' = "entry"
    /\ UNCHANGED <<entries, noSkip, runResult>>

\* top of the loop: the entries are exhausted, or the entry is blank, or its
\* URL is parsed
RunEntry ==
    /\ rpc = "entry"
    /\ IF idx > Len(entries) THEN runReturn(NilErr) /\ UNCHANGED project
       ELSE IF Len(entries[idx].URL) = 0 \/ Len(entries[idx].Name) = 0
       THEN runContinue /\ UNCHANGED project
       ELSE LET p == ProjectFromURL(entries[idx].URL) IN
            IF p.err # NilErr THEN runReturn(p.err) /\ UNCHANGED project
            ELSE runGoto("FollowProject") /\ project' = p.Reponame
    /\ UNCHANGED <<pc, input, continueOnFail, jobTimeout, waitTimeout, buildNum, build,
                   me, now, endTime, summaries, result, lastCall, waited, observed,
                   failedFetches>>
    /\ UNCHANGED <<bpVars, callVars>>

\* client.FollowProject
RunFollowProject ==
    /\ rpc = "FollowProject"
    /\ \E ok \in BOOLEAN :
         /\ lastCall' = Call("FollowProject", "runBuilds", 0, ok, "")
         /\ IF ok THEN runGoto("FindProject")
            ELSE runReturn(Error("FollowFailed", project, 0, entries[idx].URL))
    /\ UNCHANGED <<pc, params, buildNum, build, me, now, endTime, summaries, result,
                   waited, observed, failedFetches>>
    /\ UNCHANGED <<bpVars, callVars>>

\* client.FindProject, then the skip query whatever noSkip says
RunFindProject_AlwaysQueries ==
    /\ rpc = "FindProject"
    /\ \E found \in BOOLEAN :
         /\ lastCall' = Call("FindProject", "runBuilds", 0, found, "")
         /\ IF ~found THEN runReturn(Error("ProjectNotFoundError", "", 0, ""))
            ELSE runGoto("shouldSkip")
    /\ UNCHANGED <<pc, params, buildNum, build, me, now, endTime, summaries, result,
                   waited, observed, failedFetches>>
    /\ UNCHANGED <<bpVars, callVars>>

\* client.FindProject with the matcher on the entry's URL
RunFindProject ==
    /\ rpc = "FindProject"
    /\ \E found \in BOOLEAN :
         /\ lastCall' = Call("FindProject", "runBuilds", 0, found, "")
         /\ IF ~found THEN runReturn(Error("ProjectNotFoundError", "", 0, ""))
            ELSE IF noSkip THEN runGoto("BuildProject")
            ELSE runGoto("shouldSkip")
    /\ UNCHANGED <<pc, params, buildNum, build, me, now, endTime, summaries, result,
                   waited, observed, failedFetches>>
    /\ UNCHANGED <<bpVars, callVars>>

\* shouldSkip, unless -noskip; the call records what shouldSkip answered
RunShouldSkip ==
    /\ rpc = "shouldSkip"
    /\ \E answer \in {"error", "skip", "build"} :
         /\ lastCall' = Call("FindBuildSummaries", "shouldSkip", 0, answer # "error", answer)
         /\ IF answer = "error"
            THEN runReturn(Error("SkipQueryFailed", project, 0, ""))
            ELSE IF answer = "skip" THEN runContinue
            ELSE runGoto("BuildProject")
    /\ UNCHANGED <<pc, params, buildNum, build, me, now, endTime, summaries, result,
                   waited, observed, failedFetches>>
    /\ UNCHANGED <<bpVars, callVars>>

\* entry.Build: client.BuildProject, then client.WaitForProjectBuild on the
\* summary it returned
RunBuildProject ==
    /\ rpc = "BuildProject"
    /\ \E ok \in BOOLEAN :
         /\ lastCall' = Call("BuildProject", "Build", 0, ok, "")
         /\ IF ~ok
            THEN /\ runReturn(Error("BuildProjectFailed", project, 0, "BuildProject"))
                 /\ UNCHANGED <<pc, input, continueOnFail, buildNum, build, me, now,
                                endTime, summaries, result, waited, observed,
                                failedFetches>>
            ELSE /\ runGoto("WaitForProjectBuild")
                 /\ pc' = "waitForBuild"
                 /\ input' = EntryInput(entries[idx])
                 /\ continueOnFail' = entries[idx].ContinueOnFail
                 /\ buildNum' = 1
                 /\ waited' = <<1>>
                 /\ now' = 0
                 /\ endTime' = jobTimeout
                 /\ UNCHANGED <<build, me, summaries, result, observed, failedFetches>>
    /\ UNCHANGED <<project, jobTimeout, waitTimeout>>
    /\ UNCHANGED <<bpVars, callVars>>

\* WaitForProjectBuild has returned to entry.Build and runBuilds
RunBuildReturn ==
    /\ rpc = "WaitForProjectBuild"
    /\ pc = "done"
    /\ IF result = NilErr
       THEN runContinue /\ TrackerIdle
       ELSE /\ runReturn(IF result = Panic THEN Panic
                         ELSE Error("BuildProjectFailed", project, result.buildNum,
                                    result.kind))
            /\ UNCHANGED <<pc, project, input, continueOnFail, buildNum, build, me, now,
                           endTime, summaries, result, waited, observed, failedFetches>>
    /\ UNCHANGED <<jobTimeout, waitTimeout, lastCall>>
    /\ UNCHANGED <<bpVars, callVars>>

InitRun ==
    /\ entries \in EntryLists
    /\ noSkip \in BOOLEAN
    /\ idx = 1
    /\ rpc = "entry"
    /\ runResult = Running
    /\ pc = "idle"
    /\ project = ""
    /\ input = [Branch |-> "", Revision |-> "", Tag |-> ""]
    /\ continueOnFail = FALSE
    /\ jobTimeout \in JobTimeouts
    /\ waitTimeout \in WaitTimeouts
    /\ buildNum = 0
    /\ build = NoBuild
    /\ me = Nil
    /\ now = 0
    /\ endTime = 0
    /\ summaries = <<>>
    /\ result = Running
    /\ lastCall = NoCall
    /\ waited = <<>>
    /\ observed = <<>>
    /\ failedFetches = 0
    /\ BuildProjectIdle
    /\ NoCalls

Next ==
    \/ WaitForBuildTimeout
    \/ WaitForBuildPoll
    \/ WaitForNextBuildEnter
    \/ WaiterTimeout
    \/ WaiterPoll
    \/ FinalWorkflowStatus

Spec == Init /\ [][Next]_vars

\* every loop of the tracker sleeps and every remote call returns: a step
\* that is possible is eventually taken
SpecLive == Init /\ [][Next]_vars /\ WF_vars(Next)

\* the tracker following up to MaxWaited builds of a consistent remote
InitChain ==
    /\ Init
    /\ project = "test1"
    /\ ~continueOnFail

NextChain ==
    \/ WaitForBuildTimeout
    \/ WaitForBuildPoll
    \/ WaitForNextBuildEnter
    \/ WaiterTimeout
    \/ WaiterPollConsistent
    \/ FinalWorkflowStatus

SpecChain == InitChain /\ [][NextChain]_vars

\* runBuilds with the tracker it calls
NextRun ==
    \/ RunEntry
    \/ RunFollowProject
    \/ RunFindProject
    \/ RunShouldSkip
    \/ RunBuildProject
    \/ RunBuildReturn
    \/ WaitForBuildTimeout
    \/ WaitForBuildPoll
    \/ WaitForNextBuildEnter
    \/ WaiterTimeout
    \/ WaiterPoll
    \/ FinalWorkflowStatus

SpecRun == InitRun /\ [][NextRun]_vars

\* ---------------------------------------------------------------- waiter
\* what one invocation of a checker returns, and the seconds it takes
CheckerErrors == {RequestFailed("a"), RequestFailed("b")}
CheckerOutcomes ==
    [done : BOOLEAN, err : {NilErr} \cup CheckerErrors, took : {0, sleepSec}]
\* a checker is what each of its invocations would return; the deadline
\* bounds the invocations waiter can make
Checkers == [1..(MaxWaiterDeadline + 1) -> CheckerOutcomes]

\* one iteration of the loop of waiter: the deadline test, the sleep, the
\* invocation of the checker, and what the iteration does with its result;
\* starts keeps the second at which each invocation began
waiterStep_SleepBeforeDeadlineTest(w) ==
    IF After(w.now + w.interval, w.endTime)
    THEN [w EXCEPT !.now = w.now + w.interval, !.returned = TRUE,
                   !.err = timeoutExceededError]
    ELSE LET o == w.checker[w.invoked + 1]
             called == [w EXCEPT !.now = w.now + w.interval + o.took,
                                 !.invoked = w.invoked + 1,
                                 !.starts = Append(w.starts, w.now + w.interval)]
         IN IF o.err # NilErr
            THEN [called EXCEPT !.returned = TRUE, !.err = o.err]
            ELSE IF o.done
            THEN [called EXCEPT !.returned = TRUE, !.err = NilErr]
            ELSE [called EXCEPT !.count = w.count + 1]
waiterStep_DeadlineAfterChecker(w) ==
    LET o == w.checker[w.invoked + 1]
        t == w.now + w.interval + o.took
        called == [w EXCEPT !.now = t, !.invoked = w.invoked + 1,
                            !.starts = Append(w.starts, w.now + w.interval)]
    IN IF After(t, w.endTime)
       THEN [called EXCEPT !.returned = TRUE, !.err = timeoutExceededError]
       ELSE IF o.err # NilErr
       THEN [called EXCEPT !.returned = TRUE, !.err = o.err]
       ELSE IF o.done
       THEN [called EXCEPT !.returned = TRUE, !.err = NilErr]
       ELSE [called EXCEPT !.count = w.count + 1]
waiterStep(w) ==
    IF After(w.now, w.endTime)
    THEN [w EXCEPT !.returned = TRUE, !.err = timeoutExceededError]
    ELSE LET o == w.checker[w.invoked + 1]
             called == [w EXCEPT !.now = w.now + w.interval + o.took,
                                 !.invoked = w.invoked + 1,
                                 !.starts = Append(w.starts, w.now + w.interval)]
         IN IF o.err # NilErr
            THEN [called EXCEPT !.returned = TRUE, !.err = o.err]
            ELSE IF o.done
            THEN [called EXCEPT !.returned = TRUE, !.err = NilErr]
            ELSE [called EXCEPT !.count = w.count + 1]

WaiterIterate ==
    /\ waiterRun # NoWaiterRun
    /\ ~waiterRun.returned
    /\ waiterRun' = waiterStep(waiterRun)
    /\ UNCHANGED <<trackerVars, runVars, bpVars, retrierRun, matchRun, filterRun, skipRun,
                 findRun, followRun, projectRun>>

InitWaiter ==
    /\ waiterRun \in {[interval |-> waiterIntervalSecs, endTime |-> e, now |-> 0,
                       checker |-> c, count |-> 0, invoked |-> 0, starts |-> <<>>,
                       returned |-> FALSE, err |-> NilErr] :
                         e \in (0 - 1)..MaxWaiterDeadline, c \in Checkers}
    /\ retrierRun = NoRetrierRun
    /\ matchRun = NoMatchRun
    /\ filterRun = NoFilterRun
    /\ skipRun = NoSkipRun
    /\ findRun = NoFindRun
    /\ followRun = NoFollowRun
    /\ projectRun = NoProjectRun
    /\ ClientIdle

NextWaiter == WaiterIterate

SpecWaiter == InitWaiter /\ [][NextWaiter]_vars

\* ---------------------------------------------------------- matchSummary
\* selectors: each field empty or one of two values; summaries: a tag that
\* may be empty, a revision and a branch
Selectors == [Tag : {"", "v1", "v2"}, Revision : {"", "r1", "r2"}, Branch : {"", "b1", "b2"}]
MatchSummaries == [VcsTag : {"", "v1", "v2"}, Revision : {"r1", "r2"}, Branch : {"b1", "b2"}]

MatchCall ==
    /\ matchRun # NoMatchRun
    /\ ~matchRun.returned
    /\ matchRun' = [matchRun EXCEPT !.returned = TRUE,
                                    !.result = matchSummary(matchRun.bpi, matchRun.summary)]
    /\ UNCHANGED <<trackerVars, runVars, bpVars, retrierRun, waiterRun, filterRun, skipRun,
                 findRun, followRun, projectRun>>

InitMatch ==
    /\ matchRun \in {[bpi |-> s, summary |-> b, returned |-> FALSE, result |-> FALSE] :
                        s \in Selectors, b \in MatchSummaries}
    /\ retrierRun = NoRetrierRun
    /\ waiterRun = NoWaiterRun
    /\ filterRun = NoFilterRun
    /\ skipRun = NoSkipRun
    /\ findRun = NoFindRun
    /\ followRun = NoFollowRun
    /\ projectRun = NoProjectRun
    /\ ClientIdle

NextMatch == MatchCall

SpecMatch == InitMatch /\ [][NextMatch]_vars

\* ------------------------------- FilterBuildSummariesByWorkflowStatus
\* a nil *time.Time; a time t that is set is <<t>>
NoTime == <<>>
\* a historical build summary: its number, its workflow id (Nil without a
\* workflow), its status and its stop time (NoTime without one)
HistorySummary(num, workflow, status, stopped) ==
    [BuildNum |-> num, Workflow |-> workflow, Status |-> status, StoppedAt |-> stopped]
WorkflowIDs == {"w1", "w2"}
HistoryStatuses == {"success", "failed", "canceled"}
FilterTargets == {"success", "failed"}
\* histories of up to MaxHistory summaries, numbered by their position
FilterInputs ==
    UNION {{[k \in 1..n |-> HistorySummary(k, f[k][1], f[k][2], NoTime)] :
                f \in [1..n -> ({Nil} \cup WorkflowIDs) \X HistoryStatuses]} :
           n \in 0..MaxHistory}

\* the first loop's body: the status kept for the workflow of summary b
foldStatus_LastStatusWins(workflows, b, status) ==
    IF b.Workflow = Nil THEN workflows
    ELSE IF b.Workflow \notin DOMAIN workflows
    THEN (b.Workflow :> b.Status) @@ workflows
    ELSE IF b.Status # workflows[b.Workflow]
    THEN [workflows EXCEPT ![b.Workflow] = b.Status]
    ELSE workflows
foldStatus_FirstStatusWins(workflows, b, status) ==
    IF b.Workflow = Nil THEN workflows
    ELSE IF b.Workflow \notin DOMAIN workflows
    THEN (b.Workflow :> b.Status) @@ workflows
    ELSE workflows
foldStatus(workflows, b, status) ==
    IF b.Workflow = Nil THEN workflows
    ELSE IF b.Workflow \notin DOMAIN workflows
    THEN (b.Workflow :> b.Status) @@ workflows
    ELSE IF b.Status # workflows[b.Workflow] /\ b.Status # status
    THEN [workflows EXCEPT ![b.Workflow] = b.Status]
    ELSE workflows

\* the raw summaries of workflow w, in raw order
summariesOf(raw, w) ==
    SelectSeq(raw, LAMBDA b : b.Workflow # Nil /\ b.Workflow = w)

\* the second loop's body for the map entry (w, workflows[w])
collectWorkflow_SkipsFirst(raw, out, workflows, w, status) ==
    IF workflows[w] # status THEN out
    ELSE out \o summariesOf(Tail(raw), w)
collectWorkflow_StopsAtFirstGroup(raw, out, workflows, w, status) ==
    IF workflows[w] # status \/ out # <<>> THEN out
    ELSE out \o summariesOf(raw, w)
collectWorkflow(raw, out, workflows, w, status) ==
    IF workflows[w] # status THEN out
    ELSE out \o summariesOf(raw, w)

\* the whole function, for one iteration order of the map
RECURSIVE foldLoop(_, _, _, _)
foldLoop(raw, status, k, workflows) ==
    IF k > Len(raw) THEN workflows
    ELSE foldLoop(raw, status, k + 1, foldStatus(workflows, raw[k], status))
RECURSIVE collectLoop(_, _, _, _, _, _)
collectLoop(raw, status, workflows, order, k, out) ==
    IF k > Len(order) THEN out
    ELSE collectLoop(raw, status, workflows, order, k + 1,
                     collectWorkflow(raw, out, workflows, order[k], status))
\* the orders in which range can iterate over the map
MapOrders(workflows) ==
    {o \in [1..Cardinality(DOMAIN workflows) -> DOMAIN workflows] :
        \A a, b \in DOMAIN o : a # b => o[a] # o[b]}
FilterBuildSummariesByWorkflowStatus(raw, status, order) ==
    collectLoop(raw, status, foldLoop(raw, status, 1, NoWorkflows), order, 1, <<>>)

\* a call that starts: the map is empty, nothing is collected
filterStart(raw, status, round, mode, prev) ==
    [phase |-> IF raw = <<>> THEN "collect" ELSE "fold",
     input |-> raw, status |-> status, i |-> 1,
     workflows |-> NoWorkflows, visited |-> <<>>, output |-> <<>>,
     round |-> round, mode |-> mode,
     prevOutput |-> prev.output, prevWorkflows |-> prev.workflows,
     prevVisited |-> prev.visited]

\* first loop, one summary
FilterFold ==
    /\ filterRun.phase = "fold"
    /\ filterRun' = [filterRun EXCEPT
            !.workflows = foldStatus(filterRun.workflows, filterRun.input[filterRun.i],
                                     filterRun.status),
            !.i = filterRun.i + 1,
            !.phase = IF filterRun.i = Len(filterRun.input) THEN "collect" ELSE "fold"]
    /\ UNCHANGED <<trackerVars, runVars, bpVars, retrierRun, waiterRun, matchRun, skipRun,
                 findRun, followRun, projectRun>>

\* second loop, one entry of the map, in any order
FilterCollect ==
    /\ filterRun.phase = "collect"
    /\ \E w \in DOMAIN filterRun.workflows \ {filterRun.visited[k] : k \in DOMAIN filterRun.visited} :
          filterRun' = [filterRun EXCEPT
              !.visited = Append(filterRun.visited, w),
              !.output = collectWorkflow(filterRun.input, filterRun.output,
                                         filterRun.workflows, w, filterRun.status)]
    /\ UNCHANGED <<trackerVars, runVars, bpVars, retrierRun, waiterRun, matchRun, skipRun,
                 findRun, followRun, projectRun>>

\* return output
FilterReturn ==
    /\ filterRun.phase = "collect"
    /\ Len(filterRun.visited) = Cardinality(DOMAIN filterRun.workflows)
    /\ filterRun' = [filterRun EXCEPT !.phase = "returned"]
    /\ UNCHANGED <<trackerVars, runVars, bpVars, retrierRun, waiterRun, matchRun, skipRun,
                 findRun, followRun, projectRun>>

\* a second call with the same target, on the same input or on the output
\* of the first call
FilterAgain ==
    /\ filterRun.phase = "returned"
    /\ filterRun.round = 1
    /\ \E mode \in {"same", "output"} :
          filterRun' = filterStart(IF mode = "same" THEN filterRun.input ELSE filterRun.output,
                                   filterRun.status, filterRun.round + 1, mode, filterRun)
    /\ UNCHANGED <<trackerVars, runVars, bpVars, retrierRun, waiterRun, matchRun, skipRun,
                 findRun, followRun, projectRun>>

InitFilter ==
    /\ filterRun \in {filterStart(raw, t, 1, "first", NoFilterRun) :
                         raw \in FilterInputs, t \in FilterTargets}
    /\ retrierRun = NoRetrierRun
    /\ waiterRun = NoWaiterRun
    /\ matchRun = NoMatchRun
    /\ skipRun = NoSkipRun
    /\ findRun = NoFindRun
    /\ followRun = NoFollowRun
    /\ projectRun = NoProjectRun
    /\ ClientIdle

NextFilter ==
    \/ FilterFold
    \/ FilterCollect
    \/ FilterReturn
    \/ FilterAgain

SpecFilter == InitFilter /\ [][NextFilter]_vars

\* ------------------------------------------------------------ shouldSkip
\* times are hours; the call is made at hour SkipNow
SkipNow == MaxSkipDays * hoursPerDay
\* stop times: none, whole days before the call, one hour before the call
StopTimes ==
    {NoTime} \cup {<<SkipNow - d * hoursPerDay>> : d \in 1..(MaxSkipDays - 1)}
             \cup {<<SkipNow - 1>>}
SkipDays == (0 - 2)..MaxSkipDays
\* what FindBuildSummaries returns: the finished builds of the project
\* that match the selector, or an error
SkipHistories ==
    UNION {{[k \in 1..n |-> HistorySummary(k, f[k][1], f[k][2], f[k][3])] :
                f \in [1..n -> ({Nil} \cup WorkflowIDs) \X {"success", "failed"} \X StopTimes]} :
           n \in 0..MaxSkipHistory}
FindBuildSummariesReplies ==
    {[rawBuilds |-> h, err |-> NilErr] : h \in SkipHistories}
        \cup {[rawBuilds |-> <<>>, err |-> RequestFailed("FindBuildSummaries")]}

\* the loop over the successful summaries: the newest stop time so far
RECURSIVE lastSuccessLoop_FirstWins(_, _, _)
lastSuccessLoop_FirstWins(filteredBuilds, k, lastSuccess) ==
    IF k > Len(filteredBuilds) THEN lastSuccess
    ELSE LET b == filteredBuilds[k] IN
         IF b.StoppedAt = NoTime
         THEN lastSuccessLoop_FirstWins(filteredBuilds, k + 1, lastSuccess)
         ELSE IF lastSuccess = NoTime
         THEN lastSuccessLoop_FirstWins(filteredBuilds, k + 1, b.StoppedAt)
         ELSE lastSuccessLoop_FirstWins(filteredBuilds, k + 1, lastSuccess)
RECURSIVE lastSuccessLoop(_, _, _)
lastSuccessLoop(filteredBuilds, k, lastSuccess) ==
    IF k > Len(filteredBuilds) THEN lastSuccess
    ELSE LET b == filteredBuilds[k] IN
         IF b.StoppedAt = NoTime
         THEN lastSuccessLoop(filteredBuilds, k + 1, lastSuccess)
         ELSE IF lastSuccess = NoTime
         THEN lastSuccessLoop(filteredBuilds, k + 1, b.StoppedAt)
         ELSE IF After(b.StoppedAt[1], lastSuccess[1])
         THEN lastSuccessLoop(filteredBuilds, k + 1, b.StoppedAt)
         ELSE lastSuccessLoop(filteredBuilds, k + 1, lastSuccess)

\* time.Now().Add(time.Duration((skipDays*24)*-1) * time.Hour), in hours
skipCutoff_Forward(t, skipDays) == t + (skipDays * hoursPerDay)
skipCutoff(t, skipDays) == t + ((skipDays * hoursPerDay) * (0 - 1))

\* shouldSkip called at hour t; reply is what FindBuildSummaries returns and
\* order the order in which the aggregator iterates over its map
shouldSkip_NoSentinel(reply, skipDays, t, order) ==
    IF reply.err # NilErr THEN [skip |-> FALSE, err |-> reply.err]
    ELSE LET filteredBuilds ==
                 FilterBuildSummariesByWorkflowStatus(reply.rawBuilds, "success", order)
             lastSuccess == lastSuccessLoop(filteredBuilds, 1, NoTime)
         IN IF lastSuccess # NoTime
            THEN [skip |-> After(lastSuccess[1], skipCutoff(t, skipDays)), err |-> NilErr]
            ELSE [skip |-> FALSE, err |-> NilErr]
shouldSkip(reply, skipDays, t, order) ==
    IF reply.err # NilErr THEN [skip |-> FALSE, err |-> reply.err]
    ELSE LET filteredBuilds ==
                 FilterBuildSummariesByWorkflowStatus(reply.rawBuilds, "success", order)
             lastSuccess == lastSuccessLoop(filteredBuilds, 1, NoTime)
         IN IF lastSuccess # NoTime
            THEN IF skipDays = alwaysSkip
                 THEN [skip |-> TRUE, err |-> NilErr]
                 ELSE [skip |-> After(lastSuccess[1], skipCutoff(t, skipDays)),
                       err |-> NilErr]
            ELSE [skip |-> FALSE, err |-> NilErr]

\* two calls at the same hour with the same reply, one with skipDays and
\* one with otherDays
SkipCall ==
    /\ skipRun # NoSkipRun
    /\ ~skipRun.returned
    /\ LET reply == [rawBuilds |-> skipRun.history, err |-> skipRun.findErr]
           orders == MapOrders(foldLoop(skipRun.history, "success", 1, NoWorkflows))
       IN \E o1, o2 \in orders :
            LET r1 == shouldSkip(reply, skipRun.skipDays, skipRun.now, o1)
                r2 == shouldSkip(reply, skipRun.otherDays, skipRun.now, o2)
            IN skipRun' = [skipRun EXCEPT !.returned = TRUE,
                                          !.skip = r1.skip, !.err = r1.err,
                                          !.otherSkip = r2.skip, !.otherErr = r2.err]
    /\ UNCHANGED <<trackerVars, runVars, bpVars, retrierRun, waiterRun, matchRun, filterRun,
                 findRun, followRun, projectRun>>

InitSkip ==
    /\ skipRun \in {[history |-> r.rawBuilds, findErr |-> r.err, skipDays |-> d,
                     otherDays |-> o, now |-> SkipNow, returned |-> FALSE,
                     skip |-> FALSE, err |-> NilErr,
                     otherSkip |-> FALSE, otherErr |-> NilErr] :
                        r \in FindBuildSummariesReplies,
                        d \in SkipDays, o \in SkipDays}
    /\ skipRun.otherDays >= skipRun.skipDays
    /\ retrierRun = NoRetrierRun
    /\ waiterRun = NoWaiterRun
    /\ matchRun = NoMatchRun
    /\ filterRun = NoFilterRun
    /\ findRun = NoFindRun
    /\ followRun = NoFollowRun
    /\ projectRun = NoProjectRun
    /\ ClientIdle

NextSkip == SkipCall

SpecSkip == InitSkip /\ [][NextSkip]_vars

\* ---------------------------------------------------- FindBuildSummaries
\* the summaries the remote lists: one that passes every test of the
\* collection, and one for each test that it alone fails; "nouser" has no
\* user object
FindKinds == {"good", "branch", "repo", "running", "user", "nouser"}
FindSummary(kind, num) ==
    LET good == Summary(num, "me", lifecycleFinished, "w1", "success", "master") IN
    CASE kind = "good" -> good
      [] kind = "branch" -> [good EXCEPT !.Branch = "dev"]
      [] kind = "repo" -> [good EXCEPT !.Reponame = "test2"]
      [] kind = "running" -> [good EXCEPT !.Lifecycle = "running"]
      [] kind = "user" -> [good EXCEPT !.User = "you"]
      [] kind = "nouser" -> [good EXCEPT !.User = Nil]
\* a page of len summaries numbered from offset + 1: the first of kind
\* first, then alternately good ones and ones of kind odd
Page(len, first, odd, offset) ==
    [k \in 1..len |->
        FindSummary(IF k = 1 THEN first ELSE IF k % 2 = 0 THEN "good" ELSE odd, offset + k)]
\* the lengths the n-th page can have: full, or not (empty, one summary, one
\* more than asked for); the remote has no more than MaxPages - 1 full pages
PageLengths(n) ==
    {0, 1, pageLimit + 1} \cup (IF n < MaxPages THEN {pageLimit} ELSE {})

\* the condition of the collection; the user of the summary is read last,
\* through its pointer
keepSummary_IgnoresLifecycle(bpi, reponame, user, s) ==
    IF matchSummary(bpi, s) /\ s.Reponame = reponame
    THEN IF s.User = Nil THEN "panic"
         ELSE IF s.User = user THEN "keep" ELSE "drop"
    ELSE "drop"
keepSummary(bpi, reponame, user, s) ==
    IF matchSummary(bpi, s) /\ s.Reponame = reponame /\ s.Lifecycle = lifecycleFinished
    THEN IF s.User = Nil THEN "panic"
         ELSE IF s.User = user THEN "keep" ELSE "drop"
    ELSE "drop"

\* the inner loop over one page: it appends the summaries to keep, in
\* order, unless it reaches a summary whose user cannot be read
collectPage(bpi, reponame, user, results, out) ==
    IF \E k \in DOMAIN results : keepSummary(bpi, reponame, user, results[k]) = "panic"
    THEN [output |-> out, panic |-> TRUE]
    ELSE [output |-> out \o SelectSeq(results,
                                LAMBDA s : keepSummary(bpi, reponame, user, s) = "keep"),
          panic |-> FALSE]

\* one iteration of the paging loop, given what BuildSummary returned
findPageStep_KeepsEarlierPages(f, reply) ==
    LET asked == [f EXCEPT !.offsets = Append(f.offsets, f.offset)] IN
    IF reply.err # NilErr
    THEN [asked EXCEPT !.phase = "returned", !.err = reply.err]
    ELSE LET c == collectPage(f.bpi, f.reponame, f.me, reply.summaries, f.output)
             got == [asked EXCEPT !.pageLens = Append(f.pageLens, Len(reply.summaries)),
                                  !.fetched = f.fetched \o reply.summaries]
         IN IF c.panic
            THEN [got EXCEPT !.phase = "returned", !.output = <<>>, !.err = Panic]
            ELSE IF Len(reply.summaries) = pageLimit
            THEN [got EXCEPT !.output = c.output, !.offset = f.offset + pageLimit]
            ELSE [got EXCEPT !.output = c.output, !.phase = "returned"]
findPageStep(f, reply) ==
    LET asked == [f EXCEPT !.offsets = Append(f.offsets, f.offset)] IN
    IF reply.err # NilErr
    THEN [asked EXCEPT !.phase = "returned", !.output = <<>>, !.err = reply.err]
    ELSE LET c == collectPage(f.bpi, f.reponame, f.me, reply.summaries, f.output)
             got == [asked EXCEPT !.pageLens = Append(f.pageLens, Len(reply.summaries)),
                                  !.fetched = f.fetched \o reply.summaries]
         IN IF c.panic
            THEN [got EXCEPT !.phase = "returned", !.output = <<>>, !.err = Panic]
            ELSE IF Len(reply.summaries) = pageLimit
            THEN [got EXCEPT !.output = c.output, !.offset = f.offset + pageLimit]
            ELSE [got EXCEPT !.output = c.output, !.phase = "returned"]

\* c.Me
FindMe ==
    /\ findRun.phase = "Me"
    /\ \E nfail \in {0, retrierAttempts} :
         LET m == Me(nfail) IN
         findRun' = IF m.err # NilErr
                    THEN [findRun EXCEPT !.phase = "returned", !.err = m.err,
                                         !.meCalls = findRun.meCalls + 1]
                    ELSE [findRun EXCEPT !.phase = "page", !.me = m.user,
                                         !.meCalls = findRun.meCalls + 1]
    /\ UNCHANGED <<trackerVars, runVars, bpVars, retrierRun, waiterRun, matchRun, filterRun,
                   skipRun, followRun, projectRun>>

\* c.BuildSummary for the page at selector.Offset, and the loop over it
FindPage ==
    /\ findRun.phase = "page"
    /\ \E nfail \in {0, retrierAttempts}, len \in PageLengths(Len(findRun.offsets) + 1),
          first \in FindKinds, odd \in {"good", "running"} :
         findRun' = findPageStep(findRun,
                        BuildSummary(nfail, Page(len, first, odd, findRun.offset)))
    /\ UNCHANGED <<trackerVars, runVars, bpVars, retrierRun, waiterRun, matchRun, filterRun,
                   skipRun, followRun, projectRun>>

InitFind ==
    /\ findRun \in {[NoFindRun EXCEPT !.phase = "Me", !.bpi = i, !.reponame = "test1"] :
                       i \in {[Branch |-> "master", Revision |-> "", Tag |-> ""],
                              [Branch |-> "", Revision |-> "", Tag |-> ""]}}
    /\ retrierRun = NoRetrierRun
    /\ waiterRun = NoWaiterRun
    /\ matchRun = NoMatchRun
    /\ filterRun = NoFilterRun
    /\ skipRun = NoSkipRun
    /\ followRun = NoFollowRun
    /\ projectRun = NoProjectRun
    /\ ClientIdle

NextFind ==
    \/ FindMe
    \/ FindPage

SpecFind == InitFind /\ [][NextFind]_vars

\* every request is answered: a step that is possible is eventually taken
SpecFindLive == InitFind /\ [][NextFind]_vars /\ WF_vars(NextFind)

\* ----------------------------------------- FollowProject, UnfollowProject
\* what the requests of one call return, attempt by attempt
FollowOutcomes ==
    [1..retrierAttempts -> {NilErr, RequestFailed("a"), RequestFailed("b")}]

\* after the retrier: the error of the request, or the test of the
\* following flag of the response against the state asked for
followVerdict_IgnoresFlag(method, err, following) ==
    err
followVerdict(method, err, following) ==
    IF err # NilErr THEN err
    ELSE IF method = "FollowProject" /\ ~following
    THEN Error("FollowingStillFalse", "", 0, "following property still false")
    ELSE IF method = "UnfollowProject" /\ following
    THEN Error("FollowingStillTrue", "", 0, "following property still true")
    ELSE NilErr

\* Client.FollowProject and Client.UnfollowProject: fn is what the requests
\* return and following the flag a successful request decodes
FollowProject(fn, following) ==
    LET r == retrier(retrierIntervalSecs, retrierAttempts, fn)
    IN [err |-> followVerdict("FollowProject", r.err, following), requests |-> r.invoked]
UnfollowProject(fn, following) ==
    LET r == retrier(retrierIntervalSecs, retrierAttempts, fn)
    IN [err |-> followVerdict("UnfollowProject", r.err, following), requests |-> r.invoked]

FollowCall ==
    /\ followRun # NoFollowRun
    /\ ~followRun.returned
    /\ LET r == IF followRun.method = "FollowProject"
                THEN FollowProject(followRun.outcomes, followRun.following)
                ELSE UnfollowProject(followRun.outcomes, followRun.following)
       IN followRun' = [followRun EXCEPT !.returned = TRUE, !.err = r.err,
                                         !.requests = r.requests]
    /\ UNCHANGED <<trackerVars, runVars, bpVars, retrierRun, waiterRun, matchRun, filterRun,
                   skipRun, findRun, projectRun>>

InitFollow ==
    /\ followRun \in {[method |-> m, outcomes |-> fn, following |-> f, requests |-> 0,
                       returned |-> FALSE, err |-> NilErr] :
                         m \in {"FollowProject", "UnfollowProject"},
                         fn \in FollowOutcomes, f \in BOOLEAN}
    /\ retrierRun = NoRetrierRun
    /\ waiterRun = NoWaiterRun
    /\ matchRun = NoMatchRun
    /\ filterRun = NoFilterRun
    /\ skipRun = NoSkipRun
    /\ findRun = NoFindRun
    /\ projectRun = NoProjectRun
    /\ ClientIdle

NextFollow == FollowCall

SpecFollow == InitFollow /\ [][NextFollow]_vars

\* ------------------------------------------------------------ FindProject
\* the projects visible to the user: two URLs, and two projects for each
ProjectPool == [VcsURL : {"https://github.com/org/test1", "https://github.com/org/test2"},
                Reponame : {"test1", "test2"}]
ProjectLists == UNION {[1..n -> ProjectPool] : n \in 0..MaxProjects}
\* a matcher is the set of projects it is true for; runBuilds gives the
\* one that compares the URL
Matchers == {{p \in ProjectPool : p.VcsURL \in urls} :
                urls \in SUBSET {p.VcsURL : p \in ProjectPool}}
ProjectNotFoundError ==
    Error("ProjectNotFoundError", "", 0, "failed to locate a project using the given matcher")

\* Client.Projects: a failed listing returns the nil slice
ListProjects(nfail, list) ==
    LET r == retrier(retrierIntervalSecs, retrierAttempts,
                     RequestOutcomes("Projects", retrierAttempts, nfail))
    IN [err |-> r.err, projects |-> IF r.err = NilErr THEN list ELSE <<>>]

\* the loop of FindProject: the index of the project returned, 0 for none
RECURSIVE findProjectScan_LastMatch(_, _, _)
findProjectScan_LastMatch(projects, matcher, k) ==
    IF k > Len(projects) THEN 0
    ELSE LET later == findProjectScan_LastMatch(projects, matcher, k + 1) IN
         IF later # 0 THEN later
         ELSE IF projects[k] \in matcher THEN k ELSE 0
RECURSIVE findProjectScan(_, _, _)
findProjectScan(projects, matcher, k) ==
    IF k > Len(projects) THEN 0
    ELSE IF projects[k] \in matcher THEN k
    ELSE findProjectScan(projects, matcher, k + 1)

\* Client.FindProject; a project returned is <<p>>, the nil project <<>>
FindProject(nfail, list, matcher) ==
    LET l == ListProjects(nfail, list)
        k == findProjectScan(l.projects, matcher, 1)
    IN IF l.err # NilErr THEN [project |-> <<>>, err |-> l.err]
       ELSE IF k # 0 THEN [project |-> <<l.projects[k]>>, err |-> NilErr]
       ELSE [project |-> <<>>, err |-> ProjectNotFoundError]

FindProjectCall ==
    /\ projectRun # NoProjectRun
    /\ ~projectRun.returned
    /\ LET r == FindProject(projectRun.nfail, projectRun.projects, projectRun.matcher)
       IN projectRun' = [projectRun EXCEPT !.returned = TRUE, !.project = r.project,
                                           !.err = r.err]
    /\ UNCHANGED <<trackerVars, runVars, bpVars, retrierRun, waiterRun, matchRun, filterRun,
                   skipRun, findRun, followRun>>

InitFindProject ==
    /\ projectRun \in {[projects |-> l, nfail |-> n, matcher |-> m, returned |-> FALSE,
                        project |-> <<>>, err |-> Running] :
                          l \in ProjectLists, n \in {0, 1, retrierAttempts}, m \in Matchers}
    /\ retrierRun = NoRetrierRun
    /\ waiterRun = NoWaiterRun
    /\ matchRun = NoMatchRun
    /\ filterRun = NoFilterRun
    /\ skipRun = NoSkipRun
    /\ findRun = NoFindRun
    /\ followRun = NoFollowRun
    /\ ClientIdle

NextFindProject == FindProjectCall

SpecFindProject == InitFindProject /\ [][NextFindProject]_vars

\* =====================================================================
\* Properties of WaitForProjectBuild (checked under Spec)

\* the build waitForBuild returned last is the build being waited on
CurrentObserved == Len(observed) = Len(waited)
\* the last remote call was the GetBuild of the build being waited on
LastCallIsGetBuild ==
    /\ lastCall.op = "GetBuild"
    /\ lastCall.by = "waitForBuild"
    /\ lastCall.buildNum = buildNum
    /\ lastCall.ok
\* the indices of the summaries of list that make the validation of workflow
\* wf fail
BadSummaries(list, wf) ==
    {i \in 1..Len(list) : /\ matchSummary(input, list[i])
                          /\ list[i].Workflow = wf
                          /\ list[i].Status # "success"}
\* the summaries waitForNextBuild may take as the next build of workflow wf
Eligible(s, wf) ==
    /\ matchSummary(input, s)
    /\ s.User = me
    /\ s.Lifecycle # lifecycleFinished
    /\ s.Workflow = wf
Least(S) == CHOOSE i \in S : \A j \in S : i <= j
\* what the final validation must return for a listing
ExpectedFinal(list, ok, wf) ==
    IF ~ok THEN Error("SummariesFailed", "", 0, "BuildSummary")
    ELSE IF BadSummaries(list, wf) = {} THEN NilErr
    ELSE LET s == list[Least(BadSummaries(list, wf))]
         IN Error("WorkflowFailed", s.Reponame, 0, s.Status)

\* C1: without continue-on-fail, once the build waited on is reported finished
\* with failure flag true the call has returned "build <reponame> [<buildNum>]
\* failed" for this project and this build number, and the GetBuild that
\* reported it stays the last remote call (no next-build discovery, no final
\* validation).
C1_BuildFailed ==
    (~continueOnFail /\ CurrentObserved /\ build.Failed = "true")
        => /\ pc = "done"
           /\ result = Error("BuildFailed", project, buildNum, "")
           /\ LastCallIsGetBuild
C1_Witness ==
    /\ ~continueOnFail /\ CurrentObserved /\ build.Failed = "true"
    /\ pc = "done" /\ Len(waited) = 2

C7_MissingWorkflowDetails ==
    (CurrentObserved /\ build.Failed = "false" /\ build.Workflow = Nil)
        => /\ pc = "done"
           /\ result = Error("MissingWorkflowDetails", "", buildNum, "")
           /\ LastCallIsGetBuild
C7_Witness ==
    /\ CurrentObserved /\ build.Failed = "false" /\ build.Workflow = Nil
    /\ continueOnFail /\ pc = "done" /\ Len(waited) = 2

\* C8 as stated: whenever no GetBuild response reported the build finished
\* before the job deadline, the call returns the job-timeout error.  (Here:
\* the call has returned right after a GetBuild that was answered after the
\* deadline.)
C8_Original ==
    (pc = "done" /\ lastCall.op = "GetBuild" /\ After(now, endTime))
        => result = Error("JobTimeoutExceeded", project, buildNum, "")
\* C8 as amended: when the deadline check at the top of an iteration of
\* waitForBuild finds the job deadline passed, the call returns the
\* job-timeout error for this project and build number, whatever
\* continue-on-fail is; and a call that returns without having seen the build
\* it waits on finished returns that error and nothing else.
C8_JobTimeout ==
    /\ []((pc = "done" /\ ~CurrentObserved)
            => /\ result = Error("JobTimeoutExceeded", project, buildNum, "")
               /\ After(now, endTime))
    /\ [][(pc = "waitForBuild" /\ After(now, endTime))
            => /\ pc' = "done"
               /\ result' = Error("JobTimeoutExceeded", project, buildNum, "")]_vars
C8_Witness ==
    /\ pc = "done" /\ continueOnFail /\ Len(waited) = 2
    /\ result = Error("JobTimeoutExceeded", project, buildNum, "")

\* C9: a failed GetBuild leaves waitForBuild waiting for the same build and
\* its error is never the result; the wait ends only by a fetch that reports
\* finished (which returns that build, whatever fetches failed before) or by
\* the deadline check.
C9_FetchErrorsAreRetried ==
    /\ [](~(result.kind = "RequestError" /\ result.detail = "GetBuild"))
    /\ [][(pc = "waitForBuild" /\ lastCall' # lastCall /\ ~lastCall'.ok)
            => /\ pc' = "waitForBuild" /\ result' = Running
               /\ buildNum' = buildNum /\ endTime' = endTime
               /\ observed' = observed]_vars
    /\ [][(pc = "waitForBuild" /\ pc' # "waitForBuild")
            => \/ After(now, endTime) /\ result'.kind = "JobTimeoutExceeded"
               \/ /\ ~After(now, endTime)
                  /\ lastCall'.ok /\ lastCall'.seen = lifecycleFinished
                  /\ build'.Lifecycle = lifecycleFinished
                  /\ observed' = Append(observed, build')]_vars
    /\ [][(pc = "waitForBuild" /\ ~After(now, endTime) /\ now' # now
             /\ lastCall'.ok /\ lastCall'.seen = lifecycleFinished)
            => (pc' # "waitForBuild" /\ observed' = Append(observed, build'))]_vars
C9_Witness ==
    /\ failedFetches >= 1 /\ CurrentObserved /\ lastCall.op = "GetBuild"
    /\ build.Lifecycle = lifecycleFinished /\ pc = "waitForNextBuild"

\* C10: the build number waited on changes only when a listing of the
\* next-build search has a summary of the workflow of the build that just
\* finished, owned by the current user, unfinished and matching the selector;
\* the new number is that of the first such summary of the listing, and the
\* tracker is back in waitForBuild for it.
C10_NextBuild ==
    /\ []((pc = "waitForBuild" /\ lastCall.op = "BuildSummary")
            => /\ build.Failed = "false" /\ build.Workflow # Nil
               /\ {i \in 1..Len(summaries) : Eligible(summaries[i], build.Workflow)} # {}
               /\ buildNum = summaries[Least({i \in 1..Len(summaries) :
                                 Eligible(summaries[i], build.Workflow)})].BuildNum
               /\ waited[Len(waited)] = buildNum
               /\ Len(waited) = Len(observed) + 1)
    /\ [][waited' # waited
            => /\ pc = "waiter" /\ pc' = "waitForBuild"
               /\ lastCall'.op = "BuildSummary" /\ lastCall'.ok
               /\ waited' = Append(waited, buildNum')]_vars
C10_Witness ==
    /\ pc = "waitForBuild" /\ lastCall.op = "BuildSummary" /\ Len(summaries) = 2
    /\ ~Eligible(summaries[1], build.Workflow)
    /\ summaries[1].Workflow = build.Workflow
    /\ summaries[1].Lifecycle = lifecycleFinished
    /\ buildNum = summaries[2].BuildNum

\* a step that issues a remote call: the call differs from the one before, or
\* the sleep before it has advanced the clock
CallIssued == lastCall' # lastCall \/ now' # now

\* C11: the stages of one call are ordered.  A current-user fetch or a
\* listing of the next-build search is issued only when the build waited on
\* was returned by waitForBuild finished, not failed and with a workflow; the
\* listing of the final validation is issued only after the deadline check of
\* a next-build search has failed (a search that had fetched the current
\* user); and after the final validation no call is issued any more.
C11_StagesOrdered ==
    /\ [][(CallIssued /\ lastCall'.by = "waitForNextBuild")
            => /\ CurrentObserved
               /\ build.Lifecycle = lifecycleFinished
               /\ build.Failed = "false"
               /\ build.Workflow # Nil
               /\ \/ lastCall'.op = "Me" /\ LastCallIsGetBuild
                  \/ lastCall'.op = "BuildSummary" /\ lastCall.by = "waitForNextBuild"]_vars
    /\ [][(CallIssued /\ lastCall'.by = "finalWorkflowStatus")
            => /\ lastCall.by = "waitForNextBuild"
               /\ After(now, endTime) /\ endTime = waitTimeout
               /\ CurrentObserved /\ build' = build]_vars
    /\ [][(lastCall.by = "finalWorkflowStatus") => ~CallIssued]_vars
    /\ [][(pc = "finalWorkflowStatus") => lastCall'.by = "finalWorkflowStatus"]_vars
C11_Witness ==
    /\ pc = "done" /\ lastCall.by = "finalWorkflowStatus" /\ Len(waited) = 2
    /\ Len(observed) = 2 /\ result = NilErr

C3_ContinueOnFailNeverFails ==
    (rpc = "done" /\ runResult.kind = "BuildProjectFailed"
       /\ runResult.detail \in {"BuildFailed", "WorkflowFailed", "JobTimeoutExceeded"})
        => ~entries[idx].ContinueOnFail

\* C19: a listing that fails (after its retries) during the next-build search
\* makes WaitForProjectBuild return that error.
C19_ListingErrorIsReturned ==
    (lastCall.by = "waitForNextBuild" /\ lastCall.op = "BuildSummary" /\ ~lastCall.ok)
        => (pc = "done" /\ result = RequestFailed("BuildSummary"))

\* =====================================================================
\* Properties of BuildProject (checked under SpecBuild)

\* findBuildSummary has completed a poll: the listing and the current-user
\* fetch succeeded and the scan ran to its end
PollCompleted ==
    /\ lastCall.by = "findBuildSummary" /\ lastCall.op = "Me" /\ lastCall.ok
    /\ bpResult # Panic
\* the conditions of the correlation
Correlates(s) ==
    /\ Len(s.QueuedAt) > 0
    /\ s.User = me
    /\ matchSummary(input, s)
    /\ s.QueuedAt[1] > after
Correlating(list) == {i \in 1..Len(list) : Correlates(list[i])}
\* summary s meets every condition of the correlation but the queued time
TooEarly(s) ==
    /\ s.User = me
    /\ matchSummary(input, s)
    /\ (Len(s.QueuedAt) = 0 \/ s.QueuedAt[1] <= after)

\* C13: the summary findBuildSummary returns, and so the one BuildProject
\* returns, has a queued timestamp and it is strictly after the anchor.
C13_AnchorRespected ==
    /\ (bpSummary # NoSummary \/ (bpc = "done" /\ bpResult = NilErr))
         => (Len(bpSummary.QueuedAt) > 0 /\ bpSummary.QueuedAt[1] > after)
    /\ \A i \in 1..Len(summaries) : TooEarly(summaries[i]) => bpSummary # summaries[i]
\* a summary queued at the anchor and one without queued timestamp, both of
\* the current user and matching the selector, were passed over
C13_Witness ==
    /\ bpc = "done" /\ bpResult = NilErr /\ Len(summaries) = MaxSummaries
    /\ TooEarly(summaries[1])
    /\ Len(summaries[1].QueuedAt) > 0 /\ summaries[1].QueuedAt[1] = after
    /\ bpSummary = summaries[MaxSummaries]

C15_TriggerFailureEndsBuildProject ==
    (bpc # "trigger" /\ output # StatusOK)
        => /\ bpc = "done"
           /\ bpResult \notin {NilErr, Running}
           /\ bpResult = IF lastCall.ok THEN Error("FailedToStartBuild", "", 0, "")
                          ELSE RequestFailed("BuildProject")
           /\ lastCall.op = "BuildProject"
           /\ bpSummary = NoSummary /\ summaries = <<>> /\ me = Nil
C15_Witness ==
    /\ bpc = "done" /\ output # StatusOK /\ lastCall.op = "BuildProject" /\ lastCall.ok
    /\ now > 0

C17_OnlyNotFoundIsRetried ==
    /\ [](bpResult.kind # "summaryNotFoundError")
    /\ [][(bpc = "waiter" /\ now' # now /\ findErr'.kind = "summaryNotFoundError")
            => (bpc' = "waiter" /\ bpResult' = Running /\ endTime' = endTime)]_vars
    /\ [][(bpc = "waiter" /\ now' # now /\ ~lastCall'.ok)
            => /\ bpc' = "done"
               /\ lastCall'.op \in {"BuildSummary", "Me"}
               /\ bpResult' = RequestFailed(lastCall'.op)
               /\ bpSummary' = NoSummary]_vars
    /\ [][bpc = "done" => FALSE]_vars
\* the second poll of the wait failed at the listing
C17_Witness ==
    /\ bpc = "done" /\ lastCall.op = "BuildSummary" /\ ~lastCall.ok
    /\ bpResult = RequestFailed("BuildSummary")
    /\ now = endTime + waiterIntervalSecs + retrierAttempts * retrierIntervalSecs

\* C18: the anchor is earlier than the moment the first trigger request was
\* sent, so a build queued at or after that moment is queued after the
\* anchor.
C18_AnchorBeforeTrigger ==
    (bpc \in {"waiter", "done"} /\ output = StatusOK)
        => /\ after < sentAt
           /\ \A i \in 1..Len(summaries) :
                (Len(summaries[i].QueuedAt) > 0 /\ summaries[i].QueuedAt[1] >= sentAt)
                    => summaries[i].QueuedAt[1] > after

\* =====================================================================
\* Properties of retrier (checked under SpecRetrier)

\* the invocations, among the first n, at which operation fn succeeds
Succeeding(fn, n) == {i \in 1..n : fn[i] = NilErr}

\* C20: retrier invokes the operation at most attempts times; when one of
\* these invocations succeeds it returns nil right after the first that does
\* (it has invoked the operation that many times, no more); when all of them
\* fail it returns the error of the last one.
C20_Retrier ==
    retrierRun.returned
        => LET n == retrierRun.attempts
               ok == Succeeding(retrierRun.fn, n)
           IN /\ retrierRun.invoked <= n
              /\ ok # {} => (retrierRun.err = NilErr /\ retrierRun.invoked = Least(ok))
              /\ ok = {} => (retrierRun.err = retrierRun.fn[n] /\ retrierRun.invoked = n)
\* the first invocation fails, the second succeeds, and a third one would
\* succeed too
C20_Witness ==
    /\ retrierRun.returned /\ retrierRun.attempts = MaxAttempts
    /\ Succeeding(retrierRun.fn, MaxAttempts) = {2, MaxAttempts}
    /\ retrierRun.err = NilErr /\ retrierRun.invoked = 2

\* ------------------------------------------------------------------ C21
\* the invocations of the checker a call of waiter has made so far
Invocations == [k \in 1..waiterRun.invoked |-> waiterRun.checker[k]]
LastInvocation == Invocations[waiterRun.invoked]

\* C21: waiter invokes the checker again only after an invocation that
\* reported not done and no error; it returns nil exactly when its last
\* invocation reported done without an error; it returns the checker's
\* error unchanged at the first invocation that reports one, whatever that
\* invocation says about done; and it returns the timeout error only from
\* the deadline test at the top of an iteration, with the clock past the
\* deadline, hence never in place of the result of an invocation that
\* reported done or an error.
C21_Waiter ==
    /\ \A k \in 1..(waiterRun.invoked - 1) :
            /\ ~Invocations[k].done
            /\ Invocations[k].err = NilErr
    /\ waiterRun.count = (IF waiterRun.returned /\ waiterRun.invoked > 0
                             /\ (LastInvocation.done \/ LastInvocation.err # NilErr)
                          THEN waiterRun.invoked - 1 ELSE waiterRun.invoked)
    /\ waiterRun.returned =>
        /\ waiterRun.err = NilErr <=>
              /\ waiterRun.invoked > 0
              /\ LastInvocation.done
              /\ LastInvocation.err = NilErr
        /\ (waiterRun.invoked > 0 /\ LastInvocation.err # NilErr)
              => waiterRun.err = LastInvocation.err
        /\ waiterRun.err = timeoutExceededError <=>
              /\ After(waiterRun.now, waiterRun.endTime)
              /\ waiterRun.invoked > 0 =>
                    (~LastInvocation.done /\ LastInvocation.err = NilErr)
        /\ waiterRun.err \in {NilErr, timeoutExceededError} \cup CheckerErrors

\* a checker that reports done only after the deadline has passed still
\* makes waiter return nil
C21_Witness ==
    /\ waiterRun.returned
    /\ waiterRun.invoked > 1
    /\ waiterRun.err = NilErr
    /\ After(waiterRun.now, waiterRun.endTime)
\* a checker that reports done together with an error
C21_WitnessDoneWithError ==
    /\ waiterRun.returned
    /\ waiterRun.invoked > 0
    /\ LastInvocation.done
    /\ waiterRun.err \in CheckerErrors

\* ------------------------------------------------------------------ C22
\* the fields of the selector that are not empty, each with the field of
\* the summary it is compared with
SelectorFields ==
    {<<matchRun.bpi.Tag, matchRun.summary.VcsTag>>,
     <<matchRun.bpi.Revision, matchRun.summary.Revision>>,
     <<matchRun.bpi.Branch, matchRun.summary.Branch>>}
NonEmptyFields == {f \in SelectorFields : f[1] # ""}

\* C22: matchSummary(S, B) is true exactly when every non-empty field
\* among S.Tag, S.Revision, S.Branch equals B.VcsTag, B.Revision, B.Branch
\* respectively; a selector with all three fields empty matches every
\* summary.
C22_MatchSummary ==
    matchRun.returned =>
        /\ matchRun.result <=> \A f \in NonEmptyFields : f[1] = f[2]
        /\ NonEmptyFields = {} => matchRun.result

\* a selector with two fields set, of which the first matches and the
\* second does not
C22_Witness ==
    /\ matchRun.returned
    /\ ~matchRun.result
    /\ matchRun.bpi.Tag # ""
    /\ matchRun.bpi.Tag = matchRun.summary.VcsTag
    /\ matchRun.bpi.Revision = ""
    /\ matchRun.bpi.Branch # ""
    /\ matchRun.bpi.Branch # matchRun.summary.Branch

\* ------------------------------------------------------------ C23..C26
Elements(s) == {s[k] : k \in DOMAIN s}
\* the workflow ids the input of the call mentions
InputWorkflows == {b.Workflow : b \in Elements(filterRun.input)} \ {Nil}
\* the statuses of workflow w's summaries, in input order
StatusesOf(w) ==
    LET group == summariesOf(filterRun.input, w)
    IN [k \in DOMAIN group |-> group[k].Status]
\* the last status of workflow w that is not the target, the target when
\* every status is the target
LastNonTarget(w) ==
    LET S == StatusesOf(w)
        other == {k \in DOMAIN S : S[k] # filterRun.status}
    IN IF other = {} THEN filterRun.status
       ELSE S[CHOOSE k \in other : \A j \in other : j <= k]
\* the first loop of the call in progress handles the summary at filterRun.i
FoldStep ==
    /\ filterRun.phase = "fold"
    /\ filterRun'.round = filterRun.round
    /\ filterRun'.i = filterRun.i + 1

\* C23: the status computed for a workflow id is the left-to-right fold
\* over its summaries in input order: the first status is stored, a later
\* status s replaces the stored status c exactly when s differs from c and
\* from the target, summaries without a workflow change nothing; hence a
\* stored non-target status is never replaced by the target, and the map
\* ends with each workflow's last non-target status (the target if it has
\* none).
C23_Fold ==
    /\ [](filterRun.phase \in {"collect", "returned"} =>
            /\ DOMAIN filterRun.workflows = InputWorkflows
            /\ \A w \in InputWorkflows : filterRun.workflows[w] = LastNonTarget(w))
    /\ [][FoldStep =>
            LET b == filterRun.input[filterRun.i]
                w == b.Workflow
                t == filterRun.status
                before == filterRun.workflows
                later == filterRun'.workflows
            IN /\ w = Nil => later = before
               /\ w # Nil =>
                    /\ DOMAIN later = DOMAIN before \cup {w}
                    /\ \A x \in DOMAIN before \ {w} : later[x] = before[x]
                    /\ w \notin DOMAIN before => later[w] = b.Status
                    /\ w \in DOMAIN before =>
                          /\ (b.Status # before[w] /\ b.Status # t) <=> later[w] # before[w]
                          /\ later[w] \in {before[w], b.Status}
                          /\ before[w] # t => later[w] # t]_vars

\* a workflow with statuses failed, success, canceled and target success:
\* success did not replace failed, canceled did
C23_Witness ==
    /\ filterRun.phase = "returned"
    /\ filterRun.round = 1
    /\ filterRun.status = "success"
    /\ StatusesOf("w1") = <<"failed", "success", "canceled">>
    /\ filterRun.workflows["w1"] = "canceled"

\* the summaries the call has to return: those with a workflow all of
\* whose summaries have the target status
ExpectedOutput ==
    {b \in Elements(filterRun.input) :
        /\ b.Workflow # Nil
        /\ \A c \in Elements(filterRun.input) :
              c.Workflow = b.Workflow => c.Status = filterRun.status}

\* C24: the call returns exactly the input summaries that have a workflow
\* whose summaries in the input all have the target status, each once; a
\* workflow with a summary of another status contributes nothing and
\* summaries without a workflow are never returned.
C24_Output ==
    filterRun.phase = "returned" =>
        /\ Elements(filterRun.output) = ExpectedOutput
        /\ Len(filterRun.output) = Cardinality(ExpectedOutput)
        /\ \A b \in Elements(filterRun.output) : b.Workflow # Nil

\* workflow w1 is [failed, success] and contributes nothing to target
\* success, workflow w2 is returned
C24_Witness ==
    /\ filterRun.phase = "returned"
    /\ filterRun.round = 1
    /\ filterRun.status = "success"
    /\ StatusesOf("w1") = <<"failed", "success">>
    /\ StatusesOf("w2") = <<"success">>
    /\ filterRun.output = summariesOf(filterRun.input, "w2")

\* C25: applying the function with the same target to its own output
\* returns the same set of summaries as the first application.
C25_Idempotent ==
    (filterRun.phase = "returned" /\ filterRun.round > 1 /\ filterRun.mode = "output") =>
        /\ filterRun.input = filterRun.prevOutput
        /\ Elements(filterRun.output) = Elements(filterRun.prevOutput)
        /\ Len(filterRun.output) = Len(filterRun.prevOutput)

\* the first application dropped a summary and kept two workflows, the
\* second application returned them in the other order
C25_Witness ==
    /\ filterRun.phase = "returned"
    /\ filterRun.round > 1
    /\ filterRun.mode = "output"
    /\ Len(filterRun.output) = MaxHistory - 1
    /\ filterRun.output # filterRun.prevOutput

\* the groups of the workflows in the order the second loop visited them
RECURSIVE Groups(_, _, _, _)
Groups(raw, workflows, status, visited) ==
    IF visited = <<>> THEN <<>>
    ELSE (IF workflows[Head(visited)] = status
          THEN summariesOf(raw, Head(visited)) ELSE <<>>)
         \o Groups(raw, workflows, status, Tail(visited))

\* C26: two calls on the same input and target compute the same status
\* for every workflow id and return the same set of summaries, the
\* summaries of one workflow in input order; the outputs differ at most
\* in the order of the workflows' groups, which is the order in which the
\* map was iterated.
C26_Deterministic ==
    (filterRun.phase = "returned" /\ filterRun.round > 1 /\ filterRun.mode = "same") =>
        /\ filterRun.workflows = filterRun.prevWorkflows
        /\ Elements(filterRun.output) = Elements(filterRun.prevOutput)
        /\ \A w \in WorkflowIDs :
              /\ summariesOf(filterRun.output, w) = summariesOf(filterRun.prevOutput, w)
              /\ summariesOf(filterRun.output, w) \in {<<>>, summariesOf(filterRun.input, w)}
        /\ filterRun.output =
              Groups(filterRun.input, filterRun.workflows, filterRun.status, filterRun.visited)
        /\ filterRun.prevOutput =
              Groups(filterRun.input, filterRun.workflows, filterRun.status, filterRun.prevVisited)

\* two calls on the same input whose outputs list the two workflows in
\* different orders
C26_Witness ==
    /\ filterRun.phase = "returned"
    /\ filterRun.round > 1
    /\ filterRun.mode = "same"
    /\ filterRun.output # filterRun.prevOutput
    /\ Len(filterRun.output) = MaxHistory

\* ------------------------------------------------------------ C27..C29
\* the historical summaries whose aggregated workflow status is success
Successful ==
    {b \in Elements(skipRun.history) :
        /\ b.Workflow # Nil
        /\ \A c \in Elements(skipRun.history) :
              c.Workflow = b.Workflow => c.Status = "success"}
\* their stop times
SuccessStops == {b.StoppedAt[1] : b \in {c \in Successful : c.StoppedAt # NoTime}}
Newest(S) == CHOOSE t \in S : \A u \in S : u <= t
\* both calls got the history
Listed == skipRun.returned /\ skipRun.findErr = NilErr

\* C27: shouldSkip returns true exactly when the summaries whose
\* aggregated workflow status is success include one with a stop time and
\* either skipDays = -1 or the newest of their stop times is strictly
\* after now minus skipDays days; without a successful build it returns
\* false for every skipDays.  (When the history cannot be listed it
\* returns false and the error.)
C27_SkipDecision ==
    /\ Listed =>
        /\ skipRun.err = NilErr
        /\ skipRun.skip <=>
              /\ SuccessStops # {}
              /\ \/ skipRun.skipDays = -1
                 \/ Newest(SuccessStops) > skipRun.now - skipRun.skipDays * hoursPerDay
        /\ Successful = {} => (~skipRun.skip /\ ~skipRun.otherSkip)
    /\ (skipRun.returned /\ skipRun.findErr # NilErr) =>
        (~skipRun.skip /\ skipRun.err = skipRun.findErr)

\* two successful workflows, the older one stopped exactly one day ago and
\* the newer one an hour ago, skipDays = 1: skipped because of the newer
C27_Witness ==
    /\ Listed
    /\ skipRun.skipDays = 1
    /\ SuccessStops = {skipRun.now - hoursPerDay, skipRun.now - 1}
    /\ skipRun.skip

\* C28 as stated: with skipDays = -1 shouldSkip returns true whenever the
\* history contains a successful build, whatever its age, a successful
\* summary without a stop time included.
C28_Original ==
    (Listed /\ skipRun.skipDays = -1 /\ Successful # {}) => skipRun.skip

\* C28: with skipDays = -1 shouldSkip returns true whenever the history
\* contains a successful build that carries a stop time, whatever its age,
\* and false when no successful build carries a stop time.
C28_AlwaysSkip ==
    (Listed /\ skipRun.skipDays = -1) => (skipRun.skip <=> SuccessStops # {})

\* skipDays = -1 and the only success stopped two days ago: skipped,
\* though skipDays = 1 would not skip it
C28_Witness ==
    /\ Listed
    /\ skipRun.skipDays = -1
    /\ SuccessStops = {skipRun.now - 2 * hoursPerDay}
    /\ skipRun.skip
    /\ skipRun.otherDays = 1
    /\ ~skipRun.otherSkip

\* C29 as stated: if shouldSkip returns true for skipDays = D it returns
\* true for every D' > D, for every integer D including -1.
C29_Original ==
    (Listed /\ skipRun.otherDays > skipRun.skipDays /\ skipRun.skip) => skipRun.otherSkip

\* C29: for a fixed history and a fixed current time, if shouldSkip
\* returns true for skipDays = D, D other than -1, it returns true for
\* every D' > D.
C29_Monotone ==
    (Listed /\ skipRun.skipDays # -1 /\ skipRun.otherDays > skipRun.skipDays /\ skipRun.skip)
        => skipRun.otherSkip

\* skipped with skipDays = 1 and with skipDays = 2
C29_Witness ==
    /\ Listed
    /\ skipRun.skipDays = 1
    /\ skipRun.otherDays = 2
    /\ skipRun.skip
    /\ skipRun.otherSkip

\* ------------------------------------------------------------------ C30
\* the entry runBuilds is at is blank
Blank(e) == Len(e.URL) = 0 \/ Len(e.Name) = 0
\* the step runBuilds takes fails: the URL of the entry does not parse, a
\* call of follow, project lookup, skip query or trigger fails, or the
\* tracking has returned an error
StepFails ==
    \/ /\ rpc = "entry"
       /\ idx <= Len(entries)
       /\ ~Blank(entries[idx])
       /\ ProjectFromURL(entries[idx].URL).err # NilErr
    \/ /\ rpc \in {"FollowProject", "FindProject", "shouldSkip", "BuildProject"}
       /\ ~lastCall'.ok
    \/ /\ rpc = "WaitForProjectBuild"
       /\ pc = "done"
       /\ result # NilErr
\* the error runBuilds returns for the failing step
StepErrorReturned ==
    CASE rpc = "entry" -> runResult' = ProjectFromURL(entries[idx].URL).err
      [] rpc = "FollowProject" -> runResult'.kind = "FollowFailed"
      [] rpc = "FindProject" -> runResult'.kind = "ProjectNotFoundError"
      [] rpc = "shouldSkip" -> runResult'.kind = "SkipQueryFailed"
      [] rpc = "BuildProject" ->
            runResult'.kind = "BuildProjectFailed" /\ runResult'.detail = "BuildProject"
      [] rpc = "WaitForProjectBuild" ->
            \/ result = Panic /\ runResult' = Panic
            \/ /\ result # Panic
               /\ runResult'.kind = "BuildProjectFailed"
               /\ runResult'.detail = result.kind

\* C30: runBuilds handles the entries one after another in list order: it
\* moves to the next entry only from a blank entry, a skip, or a build that
\* completed without error.  The first step that fails (URL parsing,
\* follow, project lookup, skip query, trigger, tracking) makes it return
\* that error without moving on, and after it has returned nothing more
\* happens, no remote call for a later entry in particular.  It returns
\* nil only after the last entry, past which it got only by such moves.
C30_FirstErrorStops ==
    /\ []((rpc = "done" /\ runResult = NilErr) => idx = Len(entries) + 1)
    /\ []((rpc # "done") => (runResult = Running /\ idx <= Len(entries) + 1))
    /\ [][/\ rpc # "done"
          /\ entries' = entries
          /\ idx' \in {idx, idx + 1}
          /\ idx' = idx + 1 =>
                /\ idx <= Len(entries)
                /\ rpc' = "entry"
                /\ \/ rpc = "entry" /\ Blank(entries[idx])
                   \/ rpc = "shouldSkip" /\ lastCall'.ok
                   \/ rpc = "WaitForProjectBuild" /\ pc = "done" /\ result = NilErr
          /\ StepFails =>
                /\ rpc' = "done"
                /\ idx' = idx
                /\ runResult' # NilErr
                /\ StepErrorReturned
          /\ rpc' = "done" =>
                \/ StepFails
                \/ rpc = "entry" /\ idx > Len(entries) /\ runResult' = NilErr
         ]_vars

\* the first entry was built without error, the second entry's project
\* lookup failed: runBuilds returned that error at the second entry
C30_Witness ==
    /\ rpc = "done"
    /\ Len(entries) = MaxEntries
    /\ idx = MaxEntries
    /\ ~Blank(entries[1])
    /\ runResult.kind = "ProjectNotFoundError"
\* the first entry failed: the second, not blank, was never started
C30_WitnessFirstFails ==
    /\ rpc = "done"
    /\ Len(entries) > 1
    /\ idx = 1
    /\ ~Blank(entries[Len(entries)])
    /\ runResult.kind = "BuildProjectFailed"
    /\ runResult.detail = "BuildFailed"

\* ------------------------------------------------------------------ C31
\* the project of the entry has just been resolved / shouldSkip has just
\* answered
ProjectResolved == rpc = "FindProject" /\ lastCall'.op = "FindProject" /\ lastCall'.ok
SkipAnswered(answer) ==
    rpc = "shouldSkip" /\ lastCall'.op = "FindBuildSummaries" /\ lastCall'.seen = answer

\* C31: for a non-blank entry whose project was resolved, runBuilds goes on
\* to BuildProject exactly when noSkip is set or shouldSkip answered false.
\* With noSkip the history is never queried; when shouldSkip answers true
\* the entry makes neither a BuildProject nor a WaitForProjectBuild call
\* and runBuilds goes on with the next entry.
C31_SkipGate ==
    /\ [](noSkip => (rpc # "shouldSkip" /\ lastCall.op # "FindBuildSummaries"))
    /\ [][/\ ProjectResolved => rpc' = (IF noSkip THEN "BuildProject" ELSE "shouldSkip")
          /\ SkipAnswered("build") => rpc' = "BuildProject"
          /\ SkipAnswered("skip") => (rpc' = "entry" /\ idx' = idx + 1 /\ pc' = "idle")
          /\ (rpc' = "BuildProject" /\ rpc # "BuildProject") =>
                /\ ~Blank(entries[idx])
                /\ idx' = idx
                /\ \/ ProjectResolved /\ noSkip
                   \/ SkipAnswered("build") /\ ~noSkip
          /\ lastCall'.op = "BuildProject" => rpc = "BuildProject"
          /\ (rpc' = "WaitForProjectBuild" /\ rpc # "WaitForProjectBuild") =>
                (rpc = "BuildProject" /\ lastCall'.op = "BuildProject" /\ lastCall'.ok)
         ]_vars

\* the first entry was skipped, the second was not and its build has been
\* triggered
C31_Witness ==
    /\ ~noSkip
    /\ idx = MaxEntries
    /\ rpc = "WaitForProjectBuild"
    /\ lastCall.op = "BuildProject"
    /\ ~Blank(entries[1])
\* with noSkip the build is triggered without a query
C31_WitnessNoSkip ==
    /\ noSkip
    /\ rpc = "WaitForProjectBuild"
    /\ lastCall.op = "BuildProject"

\* ------------------------------------------------------------ C32, C33
\* the call of FindBuildSummaries has returned / has returned summaries
FindReturned == findRun.phase = "returned"
FindSucceeded == FindReturned /\ findRun.err = NilErr
\* the pages received so far were all full
AllFull(n) == \A k \in 1..n : findRun.pageLens[k] = pageLimit

\* C32: FindBuildSummaries fetches the current user once, then requests
\* the pages at offsets 0, 100, 200, ... in that order, each after a full
\* page, and stops after the first page whose length is not 100; a listing
\* that fails makes it return that error and no summaries, whatever the
\* earlier pages held.  When the remote ends its full pages the call
\* returns.
C32_Paging ==
    /\ [](/\ findRun.meCalls = (IF findRun.phase = "Me" THEN 0 ELSE 1)
          /\ findRun.offsets = [k \in 1..Len(findRun.offsets) |-> (k - 1) * pageLimit]
          /\ AllFull(Len(findRun.pageLens) - 1)
          /\ Len(findRun.offsets) - Len(findRun.pageLens) \in {0, 1}
          /\ findRun.phase = "page" =>
                /\ AllFull(Len(findRun.pageLens))
                /\ Len(findRun.offsets) = Len(findRun.pageLens)
                /\ findRun.offset = Len(findRun.offsets) * pageLimit
          /\ FindSucceeded =>
                /\ Len(findRun.pageLens) > 0
                /\ Len(findRun.offsets) = Len(findRun.pageLens)
                /\ findRun.pageLens[Len(findRun.pageLens)] # pageLimit
          /\ (FindReturned /\ findRun.err = RequestFailed("BuildSummary")) =>
                /\ findRun.output = <<>>
                /\ Len(findRun.offsets) = Len(findRun.pageLens) + 1
                /\ AllFull(Len(findRun.pageLens))
          /\ (FindReturned /\ findRun.err = RequestFailed("Me")) =>
                (findRun.output = <<>> /\ findRun.offsets = <<>>))
    /\ <>FindReturned

\* the listing of the third page failed after two full pages that held
\* summaries to return
C32_Witness ==
    /\ FindReturned
    /\ findRun.err = RequestFailed("BuildSummary")
    /\ findRun.offsets = <<0, pageLimit, 2 * pageLimit>>
    /\ \E k \in DOMAIN findRun.fetched :
          keepSummary(findRun.bpi, findRun.reponame, findRun.me, findRun.fetched[k]) = "keep"

\* the conditions of the collection
Collected(s) ==
    /\ matchSummary(findRun.bpi, s)
    /\ s.Reponame = findRun.reponame
    /\ s.Lifecycle = lifecycleFinished
    /\ s.User = findRun.me

\* C33: FindBuildSummaries returns, in fetch order, exactly the fetched
\* summaries that match the selector, have the project's reponame, have
\* lifecycle "finished" and the current user as user; a summary of another
\* repository, of another user, or not yet finished is never returned.
C33_Collected ==
    /\ FindSucceeded => findRun.output = SelectSeq(findRun.fetched, Collected)
    /\ \A k \in DOMAIN findRun.output :
          /\ findRun.output[k].Reponame = findRun.reponame
          /\ findRun.output[k].User = findRun.me
          /\ findRun.output[k].Lifecycle = lifecycleFinished
          /\ matchSummary(findRun.bpi, findRun.output[k])

\* two pages were fetched; summaries of another branch and not yet
\* finished were among them and some, not all, were returned
C33_Witness ==
    /\ FindSucceeded
    /\ Len(findRun.offsets) = 2
    /\ findRun.bpi.Branch # ""
    /\ Len(findRun.fetched) > pageLimit
    /\ findRun.fetched[1].Branch # findRun.bpi.Branch
    /\ findRun.fetched[pageLimit + 1].Reponame # findRun.reponame
    /\ \E k \in DOMAIN findRun.fetched : findRun.fetched[k].Lifecycle # lifecycleFinished
    /\ findRun.output # <<>>
    /\ Len(findRun.output) < Len(findRun.fetched)

\* ------------------------------------------------------------------ C34
\* a request of the call succeeded within the attempts of the retrier
FollowRequestSucceeded ==
    \E k \in 1..retrierAttempts : followRun.outcomes[k] = NilErr
\* the state the call asks for
FollowTarget == followRun.method = "FollowProject"

\* C34: FollowProject returns nil exactly when a request succeeded within
\* the retries and the response's following flag is true, UnfollowProject
\* exactly when a request succeeded and the flag is false.  When every
\* request failed the error of the last one is returned as it is; a flag
\* that differs from the state asked for gives the "following property
\* still false" / "still true" error.
C34_Follow ==
    followRun.returned =>
        /\ followRun.err = NilErr <=>
              (FollowRequestSucceeded /\ followRun.following = FollowTarget)
        /\ ~FollowRequestSucceeded => followRun.err = followRun.outcomes[retrierAttempts]
        /\ (FollowRequestSucceeded /\ followRun.following # FollowTarget) =>
              followRun.err.kind =
                  (IF FollowTarget THEN "FollowingStillFalse" ELSE "FollowingStillTrue")

\* the second request of FollowProject succeeded and the project is still
\* not followed
C34_Witness ==
    /\ followRun.returned
    /\ followRun.method = "FollowProject"
    /\ followRun.requests = 2
    /\ ~followRun.following
    /\ followRun.err.kind = "FollowingStillFalse"

\* ------------------------------------------------------------------ C35
\* the places of the project list where the matcher is true
Matching == {k \in DOMAIN projectRun.projects : projectRun.projects[k] \in projectRun.matcher}
Listed35 == projectRun.returned /\ projectRun.nfail < retrierAttempts

\* C35: FindProject returns the first project of the list for which the
\* matcher is true; it returns the ProjectNotFoundError exactly when the
\* list, possibly empty, has no such project; and when the list cannot be
\* fetched it returns the error of the listing and no project.
C35_FindProject ==
    /\ Listed35 =>
        /\ Matching # {} =>
              /\ projectRun.err = NilErr
              /\ projectRun.project = <<projectRun.projects[Least(Matching)]>>
        /\ Matching = {} <=> projectRun.err = ProjectNotFoundError
        /\ Matching = {} => projectRun.project = <<>>
    /\ (projectRun.returned /\ ~Listed35) =>
        /\ projectRun.err = RequestFailed("Projects")
        /\ projectRun.project = <<>>

\* the matcher is true for the second and for the third project, which
\* differ: the second is returned
C35_Witness ==
    /\ Listed35
    /\ Matching = {2, MaxProjects}
    /\ projectRun.projects[2] # projectRun.projects[MaxProjects]
    /\ projectRun.project = <<projectRun.projects[2]>>

\* ------------------------------------------------------------------ C36
\* C36: WaitForProjectBuild yields a result, nil or an error, for every
\* build GetBuild reports finished, a finished build without failure flag
\* (Build.Failed nil) included: reading the flag never crashes the tracker.
C36_FailedFlagNeverCrashes ==
    (pc = "done" /\ build.Lifecycle = lifecycleFinished /\ build.Failed = Nil)
        => result # Panic

\* ------------------------------------------------------------------ C37
\* C37: BuildProject sends at most retrierAttempts trigger requests and
\* none after one has returned without error: at most one trigger request
\* is answered successfully, its answer is the last one, and once the
\* correlation polling has started no trigger request is sent.
C37_OneTrigger ==
    /\ [](/\ triggers.sent <= retrierAttempts
          /\ triggers.answered <= 1
          /\ bpc = "trigger" => triggers = NoTriggers
          /\ bpc # "trigger" =>
                /\ triggers.sent >= 1
                /\ triggers.answered = 1 <=> lastCall.op # "BuildProject" \/ lastCall.ok
          /\ bpc = "waiter" => triggers.answered = 1)
    /\ [][bpc # "trigger" => (triggers' = triggers /\ lastCall'.op # "BuildProject")]_vars

\* the third trigger request was answered and the correlation polled
C37_Witness ==
    /\ triggers.sent = retrierAttempts
    /\ triggers.answered = 1
    /\ lastCall.by = "findBuildSummary"
    /\ bpc = "waiter"

\* ------------------------------------------------------------------ C38
\* the invocations of the checker that began after the deadline
LateInvocations ==
    {k \in DOMAIN waiterRun.starts : After(waiterRun.starts[k], waiterRun.endTime)}

\* C38: waiter invokes the checker at least once whenever the deadline
\* has not passed at entry (the call begins at second 0); after the
\* deadline has passed the checker is invoked at most once more, by the
\* iteration whose sleep straddles the deadline, and waiter then returns
\* the timeout error unless that last invocation reports done or an error:
\* a last invocation that reports done makes waiter return nil.
C38_LastInvocation ==
    /\ Len(waiterRun.starts) = waiterRun.invoked
    /\ Cardinality(LateInvocations) <= 1
    /\ LateInvocations \subseteq {waiterRun.invoked}
    /\ (LateInvocations # {} /\ waiterRun.invoked > 1) =>
          ~After(waiterRun.starts[waiterRun.invoked - 1], waiterRun.endTime)
    /\ (LateInvocations # {} /\ ~waiterRun.returned) =>
          waiterStep(waiterRun).err = timeoutExceededError
    /\ waiterRun.returned =>
          /\ ~After(0, waiterRun.endTime) => waiterRun.invoked >= 1
          /\ After(0, waiterRun.endTime) =>
                (waiterRun.invoked = 0 /\ waiterRun.err = timeoutExceededError)
          /\ (LateInvocations # {} /\ LastInvocation.err = NilErr) =>
                waiterRun.err = (IF LastInvocation.done THEN NilErr
                                 ELSE timeoutExceededError)

\* the deadline passed during the sleep of the second iteration, the
\* invocation that followed reported done and waiter returned nil
C38_Witness ==
    /\ waiterRun.returned
    /\ waiterRun.invoked = 2
    /\ LateInvocations = {2}
    /\ ~After(waiterRun.starts[1], waiterRun.endTime)
    /\ LastInvocation.done
    /\ waiterRun.err = NilErr

\* ------------------------------------------------------------------ C39
\* C39: with a consistent remote (a build GetBuild reported finished is
\* never listed afterwards with an unfinished lifecycle) the sequence of
\* build numbers WaitForProjectBuild waits on has no repetition: the
\* tracker never goes back to a build it has already observed finished.
C39_NoRepetition ==
    /\ \A i, j \in DOMAIN waited : i # j => waited[i] # waited[j]
    /\ buildNum = waited[Len(waited)]
    /\ pc \in {"waitForNextBuild", "waiter", "finalWorkflowStatus"} =>
          (Len(observed) = Len(waited) /\ build.Lifecycle = lifecycleFinished)

\* the tracker went on to a third build from a listing that also held the
\* finished summary of the first build
C39_Witness ==
    /\ pc = "waitForBuild"
    /\ Len(waited) = MaxWaited
    /\ Len(summaries) = 2
    /\ summaries[1].BuildNum = waited[1]
    /\ summaries[1].Lifecycle = lifecycleFinished
    /\ summaries[2].BuildNum = waited[Len(waited)]

\* ------------------------------------------------------------------ C40
\* C40: retrier with an attempt count of zero or less never invokes the
\* operation, does not sleep and returns nil; a caller such as Client.Me,
\* when the process-wide retrierAttempts is zero or negative, therefore
\* goes on with a zero-valued response and no error although no request
\* was sent.  (With a positive count a nil error means a request was
\* sent and answered.)
C40_NoAttempts ==
    retrierRun.returned =>
        /\ retrierRun.attempts <= 0 =>
              /\ retrierRun.invoked = 0
              /\ retrierRun.slept = 0
              /\ retrierRun.err = NilErr
              /\ me = ""
              /\ lastCall.ok
        /\ (retrierRun.attempts > 0 /\ retrierRun.err = NilErr) =>
              /\ retrierRun.invoked >= 1
              /\ retrierRun.fn[retrierRun.invoked] = NilErr
              /\ me = "me"

\* retrierAttempts is negative and every request would have failed: Me
\* returned the zero-valued user and nil
C40_Witness ==
    /\ retrierRun.returned
    /\ retrierRun.attempts < 0
    /\ Succeeding(retrierRun.fn, MaxAttempts) = {}
    /\ retrierRun.err = NilErr
    /\ me = ""

====
